---- MODULE Spec2Model ----
(***************************************************************************)
(* Neo4jStorage (src/src/Neo4jStorage.ts): a storage facade over a Neo4j   *)
(* property graph.  Every public method opens a session, awaits one or     *)
(* more Cypher statements and closes the session in a finally block.  The  *)
(* model keeps the graph (Thread, Message and Entity nodes, CONTAINS,      *)
(* MENTIONS and relation edges, the declared constraints and indexes), the *)
(* instance flag _hasInitialized, and one program counter per caller; a    *)
(* caller moves by one awaited statement per step, so that callers         *)
(* interleave exactly at the await points of the code.                     *)
(*                                                                         *)
(* Confidences are kept in tenths (0.9 is 9), timestamps are small         *)
(* naturals (a millisecond clock).                                         *)
(***************************************************************************)
EXTENDS Integers, Sequences, FiniteSets, TLC

VARIABLES
    hasInitialized,      \* Neo4jStorage._hasInitialized
    storageInitialized,  \* the tools module's storageInitialized flag
    schema,              \* constraints and indexes declared in the store
    threads,             \* Thread nodes
    messages,            \* Message nodes
    contains,            \* (:Thread)-[:CONTAINS]->(:Message) edges
    entities,            \* Entity nodes
    mentions,            \* (:Message)-[:MENTIONS]->(:Entity) edges
    relations,           \* (:Entity)-[label]->(:Entity) edges
    resources,           \* Resource nodes
    now,                 \* the wall clock read by new Date()
    pc,                  \* per caller: the await point it is suspended at
    call,                \* per caller: arguments and locals of the running method
    sess,                \* per caller: sessions opened and not yet closed
    ret                  \* per caller: outcome of the method that returned last

store == <<threads, messages, contains, entities, mentions, relations>>
vars == <<hasInitialized, storageInitialized, schema, threads, messages, contains,
          entities, mentions, relations, resources, now, pc, call, sess, ret>>

---------------------------------------------------------------------------
(* Bounds of the model *)

\* greatest timestamp a caller supplies
MaxTime == 2
\* greatest selectBy.last and perPage a caller supplies
MaxLimit == 2
\* sessions a caller may have left open before it calls healthCheck again
MaxLeakedSessions == 1
\* entity upserts made one after the other
MaxUpserts == 3
\* statements in one batch
MaxBatch == 2

Procs == {"p1", "p2"}
ThreadIds == {"t1", "t2"}
MsgIds == {"m1", "m2", "m3"}
Times == 1..MaxTime
Absent == "absent"

\* getMessages: const limit = typeof last === "number" ? last : 100
\* getMessagesByThreadId: Math.floor(options?.limit || 100)
DefaultLimit == 100
\* getMessagesPaginated: perPage || 10
DefaultPerPage == 10

---------------------------------------------------------------------------
(* Generic helpers *)

Min(a, b) == IF a < b THEN a ELSE b

\* smallest natural not in S.  A node is identified by its key and a serial number
\* among the nodes with that key, an edge by its ends and a serial number
Fresh(S) == CHOOSE n \in 0..Cardinality(S) : n \notin S /\ \A k \in 0..(n - 1) : k \in S

Range(s) == {s[i] : i \in 1..Len(s)}

\* all orderings of the finite set S as sequences without repetition
Perms(S) == {s \in [1..Cardinality(S) -> S] : \A i, j \in 1..Cardinality(S) : i # j => s[i] # s[j]}

\* Cypher SKIP off LIMIT lim applied to a row sequence
SkipLimit(s, off, lim) == SubSeq(s, off + 1, Min(Len(s), off + lim))

---------------------------------------------------------------------------
(* Caller bookkeeping *)

NoCall == [op |-> "none", threadId |-> Absent, id |-> Absent, createdAt |-> 0,
           content |-> "", resourceId |-> Absent, title |-> Absent, ents |-> <<>>,
           k |-> 0, j |-> 0, err |-> FALSE, node |-> FALSE, wrap |-> FALSE,
           last |-> [kind |-> "undefined", n |-> 0], limit |-> 0, offset |-> 0, page |-> 0, perPage |-> 0,
           total |-> 0, ids |-> {}, rows |-> <<>>, ops |-> <<>>,
           updates |-> [content |-> Absent, threadId |-> Absent]]

\* noop: the method returned before opening a session
NoRet == [op |-> "none", status |-> "none", noop |-> FALSE, msgs |-> <<>>,
          threadId |-> Absent, last |-> [kind |-> "undefined", n |-> 0], page |-> 0, perPage |-> 0,
          total |-> 0, hasMore |-> FALSE, ids |-> {}, healthy |-> FALSE,
          pages |-> <<>>]

Idle(p) == pc[p] = "idle"

\* the method running in p returns (status "ok") or throws (status "throw")
Return(p, r) ==
    /\ pc' = [pc EXCEPT ![p] = "idle"]
    /\ call' = [call EXCEPT ![p] = NoCall]
    /\ ret' = [ret EXCEPT ![p] = r]

Goto(p, label) == pc' = [pc EXCEPT ![p] = label]

\* a caller that starts a method no longer holds the result of its previous one
Forget(p) == ret' = [ret EXCEPT ![p] = NoRet]

OpenSession(p) == sess' = [sess EXCEPT ![p] = @ + 1]
CloseSession(p) == sess' = [sess EXCEPT ![p] = @ - 1]

---------------------------------------------------------------------------
(* Schema bootstrap: initialize(), init(), ensureStorageInitialized() *)

SchemaStmts == <<"thread_id_unique", "message_id_unique", "thread_resource_id",
                 "message_thread_id", "message_created_at">>

AllSchema == Range(SchemaStmts)

\* CREATE CONSTRAINT ... REQUIRE x.id IS UNIQUE is refused by the store while two
\* nodes of the label already share an id
Duplicated(nodes) == \E a, b \in nodes : a.nid # b.nid /\ a.id = b.id

ConstraintRefused(name) ==
    \/ name = "thread_id_unique" /\ Duplicated(threads)
    \/ name = "message_id_unique" /\ Duplicated(messages)

\* a non-atomic MERGE (one without a backing uniqueness constraint) is between
\* its match and its create: a schema change waits for it
MergeInFlight == \E q \in Procs : pc[q] \in {"cm_merge_create"}

\* an initialize that does not look at the flag
NeverInitialized == FALSE

\* if (this._hasInitialized) return;
AlreadyInitialized == hasInitialized

\* a flag assignment placed inside the sequence of statements
InitializedAfterAny(k) == k >= 1

\* this._hasInitialized = true stands after the last of the schema statements
InitializedAfter(k) == k = Len(SchemaStmts)

\* if (this._hasInitialized) return;  const session = this.driver.session(...)
InitializeEnter(p, op, wrap) ==
    IF AlreadyInitialized
    THEN /\ Return(p, [NoRet EXCEPT !.op = op, !.status = "ok", !.noop = TRUE])
         /\ storageInitialized' = (storageInitialized \/ wrap)
         /\ UNCHANGED sess
    ELSE /\ Goto(p, "init_run")
         /\ call' = [call EXCEPT ![p] = [NoCall EXCEPT !.op = op, !.k = 1, !.wrap = wrap]]
         /\ OpenSession(p)
         /\ Forget(p)
         /\ UNCHANGED storageInitialized

\* initialize(), also reached through init(), which only awaits initialize()
InitializeCall(p) ==
    /\ Idle(p)
    /\ InitializeEnter(p, "initialize", FALSE)
    /\ UNCHANGED <<hasInitialized, schema, store, resources, now>>

\* ensureStorageInitialized(): if (!storageInitialized) { await initialize(); ... }
EnsureStorageInitializedCall(p) ==
    /\ Idle(p)
    /\ IF storageInitialized
       THEN /\ Return(p, [NoRet EXCEPT !.op = "ensure", !.status = "ok", !.noop = TRUE])
            /\ UNCHANGED <<sess, storageInitialized>>
       ELSE InitializeEnter(p, "ensure", TRUE)
    /\ UNCHANGED <<hasInitialized, schema, store, resources, now>>

\* one awaited session.run of the five schema statements; the assignment
\* this._hasInitialized = true follows the fifth without an await in between
InitializeRun(p, faults) ==
    /\ pc[p] = "init_run"
    /\ ~MergeInFlight
    /\ \E fault \in faults :
        LET k == call[p].k
            name == SchemaStmts[k]
        IN IF fault \/ ConstraintRefused(name)
           THEN /\ call' = [call EXCEPT ![p].err = TRUE, ![p].k = 0]
                /\ Goto(p, "init_close")
                /\ UNCHANGED <<schema, hasInitialized>>
           ELSE /\ schema' = schema \cup {name}
                /\ IF InitializedAfter(k)
                   THEN /\ hasInitialized' = TRUE
                        /\ call' = [call EXCEPT ![p].k = 0]
                        /\ Goto(p, "init_close")
                   ELSE /\ call' = [call EXCEPT ![p].k = k + 1]
                        /\ UNCHANGED <<hasInitialized, pc>>
    /\ UNCHANGED <<storageInitialized, store, resources, now, sess, ret>>

\* finally { await session.close(); }, then the caller's continuation
InitializeClose(p) ==
    /\ pc[p] = "init_close"
    /\ CloseSession(p)
    /\ Return(p, [NoRet EXCEPT !.op = call[p].op,
                               !.status = IF call[p].err THEN "throw" ELSE "ok"])
    /\ storageInitialized' = (storageInitialized \/ (call[p].wrap /\ ~call[p].err))
    /\ UNCHANGED <<hasInitialized, schema, store, resources, now>>

\* initialize() run to completion with no statement failing
InitializeDone ==
    /\ \A q \in Procs : Idle(q)
    /\ ~hasInitialized
    /\ ~\E name \in AllSchema : ConstraintRefused(name)
    /\ schema' = AllSchema
    /\ hasInitialized' = TRUE
    /\ UNCHANGED <<storageInitialized, store, resources, now, pc, call, sess, ret>>

---------------------------------------------------------------------------
(* Entity extraction *)

Person(v) == [type |-> "Person", value |-> v, confidence |-> 9]
Topic(v) == [type |-> "Topic", value |-> v, confidence |-> 8]
Technology(v) == [type |-> "Technology", value |-> v, confidence |-> 9]
Question(v) == [type |-> "Question", value |-> v, confidence |-> 6]

\* extractEntities on the message texts the callers of the model send.  The rules
\* run in the order Person, Topic, Technology, Question and push in that order:
\*   "I use neo4j": no capitalised word followed by lower case letters, no
\*     interest marker, techPattern matches "neo4j", no "?";
\*   "Why python?": namePattern matches "Why" but the text holds no introduction
\*     frame for it, techPattern matches "python", the text holds "?" and "why";
\*   "I'm Dawn. I use python": namePattern matches "Dawn" and the text includes
\*     "I'm Dawn"; no interest marker; techPattern matches "python";
\*   "python, Python": techPattern (flag i) matches twice, both lower-cased;
\*   "I'm Dawn. I like python": namePattern matches "Dawn" (introduced by "I'm
\*     Dawn"), interestPattern matches "like python" and leaves the topic
\*     "python", techPattern matches "python", no "?";
\*   "I'm Dawn. Why python?": namePattern matches "Dawn" (introduced by "I'm Dawn")
\*     and "Why" (no introduction frame), techPattern matches "python", the text
\*     holds "?" and "why"; the question value is substring(0, 50) + "...".
extractEntities(text) ==
    CASE text = "I use neo4j" -> <<Technology("neo4j")>>
      [] text = "Why python?" -> <<Technology("python"), Question("Why python?...")>>
      [] text = "I'm Dawn. I use python" -> <<Person("Dawn"), Technology("python")>>
      [] text = "python, Python" -> <<Technology("python"), Technology("python")>>
      [] text = "I'm Dawn. I like python" ->
            <<Person("Dawn"), Topic("python"), Technology("python")>>
      [] text = "I'm Dawn. Why python?" ->
            <<Person("Dawn"), Technology("python"), Question("I'm Dawn. Why python?...")>>
      [] OTHER -> <<>>

\* content.length
Length(text) ==
    CASE text = "" -> 0
      [] text = "ok" -> 2
      [] text = "I use neo4j" -> 11
      [] text = "Why python?" -> 11
      [] text = "I'm Dawn. I use python" -> 22
      [] text = "python, Python" -> 14
      [] text = "I'm Dawn. I like python" -> 23
      [] text = "I'm Dawn. Why python?" -> 21
      [] OTHER -> 3

\* createEntityRelationships: the label chosen for the ordered pair (entity1, entity2)
\* a rule table that has lost its three specific labels
RelatedToAlways(e1, e2) == "RELATED_TO"

RelationshipType(e1, e2) ==
    IF e1.type = "Person" /\ e2.type = "Topic" THEN "INTERESTED_IN"
    ELSE IF e1.type = "Person" /\ e2.type = "Technology" THEN "USES"
    ELSE IF e1.type = "Topic" /\ e2.type = "Technology" THEN "IMPLEMENTS"
    ELSE "RELATED_TO"

---------------------------------------------------------------------------
(* The Cypher statements, as functions of the graph *)

ThreadsById(id) == {t \in threads : t.id = id}
MessagesById(id) == {m \in messages : m.id = id}
EntitiesBy(type, value) == {e \in entities : e.type = type /\ e.value = value}

\* MERGE (t:Thread {id: $threadId}) is one atomic step only when the uniqueness
\* constraint on Thread.id backs it; without it the store matches, then creates
\* a store that does not serialise the MERGE on the constrained key
ThreadMergeNeverAtomic == FALSE

ThreadMergeIsAtomic == "thread_id_unique" \in schema

NewThread(id, resourceId, title, createdAt, updatedAt, metadata) ==
    [nid |-> <<id, Fresh({t.nid[2] : t \in ThreadsById(id)})>>, id |-> id,
     resourceId |-> resourceId,
     title |-> title, createdAt |-> createdAt, updatedAt |-> updatedAt,
     metadata |-> metadata]

\* MERGE (t:Thread {id}) ON CREATE SET ...: the create half
ThreadMergeCreate(c) ==
    threads \cup {NewThread(c.threadId, c.resourceId, c.title, c.createdAt,
                            c.createdAt, "{}")}

\* a MERGE whose SET is not under ON CREATE: matched threads take the parameters
ThreadMergeOverwrite(c) ==
    IF ThreadsById(c.threadId) # {}
    THEN {IF t.id = c.threadId
          THEN [t EXCEPT !.resourceId = c.resourceId, !.title = c.title,
                         !.createdAt = c.createdAt, !.updatedAt = c.createdAt,
                         !.metadata = "{}"]
          ELSE t : t \in threads}
    ELSE ThreadMergeCreate(c)

\* MERGE (t:Thread {id}) ON CREATE SET ...: matched threads are left as they are
ThreadMerge(c) ==
    IF ThreadsById(c.threadId) # {} THEN threads ELSE ThreadMergeCreate(c)

\* a message creation that left out CREATE (t)-[:CONTAINS]->(m)
MessageCreateUnlinked(c) ==
    [nodes |-> {[nid |-> <<c.id, Fresh({x.nid[2] : x \in MessagesById(c.id)})>>, id |-> c.id,
                 threadId |-> c.threadId, content |-> c.content, createdAt |-> c.createdAt]
                    : t \in ThreadsById(c.threadId)},
     edges |-> {}]

\* MATCH (t:Thread {id: $threadId}) CREATE (m:Message {...}) CREATE (t)-[:CONTAINS]->(m):
\* one Message node and one edge per matched Thread node
RECURSIVE MessageCreateRows(_, _, _)
MessageCreateRows(ts, c, acc) ==
    IF ts = {} THEN acc
    ELSE LET t == CHOOSE x \in ts : \A y \in ts : x.nid[2] <= y.nid[2]
             m == [nid |-> <<c.id, Fresh({x.nid[2] : x \in MessagesById(c.id) \cup acc.nodes})>>,
                   id |-> c.id,
                   threadId |-> c.threadId, content |-> c.content,
                   createdAt |-> c.createdAt]
         IN MessageCreateRows(ts \ {t}, c,
                [nodes |-> acc.nodes \cup {m}, edges |-> acc.edges \cup {<<t.nid, m.nid>>}])

MessageCreate(c) == MessageCreateRows(ThreadsById(c.threadId), c, [nodes |-> {}, edges |-> {}])

\* a store that does not enforce the constraint on Message.id
MessageCreateNeverRefused(c) == FALSE

\* the statement is rolled back when it would leave two Message nodes with one id
\* under the uniqueness constraint on Message.id
MessageCreateRefused(c) ==
    /\ "message_id_unique" \in schema
    /\ \/ MessagesById(c.id) # {} /\ ThreadsById(c.threadId) # {}
       \/ Cardinality(ThreadsById(c.threadId)) > 1

\* a store that does not enforce the constraint on Thread.id
ThreadCreateNeverRefused(id) == FALSE

\* CREATE (t:Thread {...}) is refused under the constraint when the id is taken
ThreadCreateRefused(id) == "thread_id_unique" \in schema /\ ThreadsById(id) # {}

\* a deletion that also took the thread's messages and their edges with it
ThreadCascadeDelete(id) ==
    LET gone == {m \in messages : \E t \in ThreadsById(id) : <<t.nid, m.nid>> \in contains}
    IN [threads |-> threads \ ThreadsById(id),
        contains |-> {e \in contains : e[1] \notin {t.nid : t \in ThreadsById(id)}},
        messages |-> messages \ gone,
        mentions |-> {e \in mentions : e.msg \notin {m.nid : m \in gone}}]

\* MATCH (t:Thread {id: $threadId}) DETACH DELETE t: the Thread nodes and the edges
\* at them go, every other node and edge stays
ThreadDetachDelete(id) ==
    [threads |-> threads \ ThreadsById(id),
     contains |-> {e \in contains : e[1] \notin {t.nid : t \in ThreadsById(id)}},
     messages |-> messages,
     mentions |-> mentions]

\* a deletion that also drops the Entity nodes left without a mention
EntitiesOrphanedDropped(ids) ==
    {e \in entities :
        \E x \in mentions : x.ent = e.nid /\ \E m \in messages : m.nid = x.msg /\ m.id \notin ids}

\* DETACH DELETE m takes the matched Message nodes and the edges at them; the
\* Entity node at the far end of a MENTIONS edge is not matched and stays
EntitiesKept(ids) == entities

\* a deletion whose MATCH has lost its WHERE: every Message node goes
MessageDeleteAll(ids) == [messages |-> {}, contains |-> {}, mentions |-> {}]

\* MATCH (m:Message) WHERE m.id IN $messageIds DETACH DELETE m
MessageDetachDelete(ids) ==
    LET gone == {m.nid : m \in {x \in messages : x.id \in ids}}
    IN [messages |-> {m \in messages : m.id \notin ids},
        contains |-> {e \in contains : e[2] \notin gone},
        mentions |-> {e \in mentions : e.msg \notin gone}]

\* ON MATCH SET e.confidence = CASE WHEN e.confidence < $confidence THEN $confidence
\*                                  ELSE e.confidence END
\* an ON MATCH SET that stores the confidence of the latest extraction
LatestConfidence(old, new) == new

RaiseConfidence(old, new) == IF old < new THEN new ELSE old

\* a MERGE of the mention edge: none is added where the pair already has one
MentionsMerged(ms, es, confidence) ==
    mentions \cup
    {[msg |-> r[1], ent |-> r[2], confidence |-> confidence, eid |-> 1]
        : r \in {x \in {m.nid : m \in ms} \X {e.nid : e \in es} :
                    \A y \in mentions : y.msg # x[1] \/ y.ent # x[2]}}

\* CREATE (m)-[:MENTIONS {confidence: $confidence}]->(e), once per (m, e) row: a new
\* edge each time, also between a message and an entity that already have one
MentionsAdded(ms, es, confidence) ==
    mentions \cup
    {[msg |-> r[1], ent |-> r[2], confidence |-> confidence,
      eid |-> Fresh({x.eid : x \in {y \in mentions : y.msg = r[1] /\ y.ent = r[2]}})]
        : r \in {m.nid : m \in ms} \X {e.nid : e \in es}}

\* MATCH (m:Message {id}) MERGE (e:Entity {type, value}) ... when the MERGE matches:
\* every matched Entity node is raised and mentioned
EntityMergeMatch(msgId, ent) ==
    LET ms == MessagesById(msgId)
        es == EntitiesBy(ent.type, ent.value)
    IN IF ms = {} THEN [entities |-> entities, mentions |-> mentions]
       ELSE [entities |-> {IF e \in es
                           THEN [e EXCEPT !.confidence = RaiseConfidence(@, ent.confidence)]
                           ELSE e : e \in entities},
             mentions |-> MentionsAdded(ms, es, ent.confidence)]

\* ... and when it does not: ON CREATE SET e.confidence = $confidence
EntityMergeCreate(msgId, ent) ==
    LET ms == MessagesById(msgId)
        e == [nid |-> <<ent.type, ent.value,
                        Fresh({x.nid[3] : x \in EntitiesBy(ent.type, ent.value)})>>,
              type |-> ent.type, value |-> ent.value, confidence |-> ent.confidence]
    IN IF ms = {} THEN [entities |-> entities, mentions |-> mentions]
       ELSE [entities |-> entities \cup {e},
             mentions |-> MentionsAdded(ms, {e}, ent.confidence)]

\* a relation that takes the confidence of its source entity
SourceConfidence(e1, e2) == e1.confidence

\* confidence: Math.min(entity1.confidence, entity2.confidence)
RelationConfidence(e1, e2) == Min(e1.confidence, e2.confidence)

\* MATCH (e1:Entity {...}) MATCH (e2:Entity {...}) MERGE (e1)-[r:label]->(e2)
\* ON CREATE SET r.confidence = $confidence ON MATCH SET r.confidence = max
RelationMerge(e1, e2) ==
    LET label == RelationshipType(e1, e2)
        confidence == RelationConfidence(e1, e2)
        rows == {a.nid : a \in EntitiesBy(e1.type, e1.value)}
                    \X {b.nid : b \in EntitiesBy(e2.type, e2.value)}
        Hit(r) == <<r.src, r.dst>> \in rows /\ r.label = label
        matched == {<<r.src, r.dst>> : r \in {x \in relations : Hit(x)}}
    IN {IF Hit(r) THEN [r EXCEPT !.confidence = RaiseConfidence(@, confidence)] ELSE r
            : r \in relations}
       \cup {[src |-> x[1], dst |-> x[2], label |-> label, confidence |-> confidence]
                : x \in rows \ matched}

\* a listing that goes by the threadId property of the messages, not by the edge
WithThreadId(threadId) == {m \in messages : m.threadId = threadId}

\* MATCH (t:Thread {id: $threadId})-[r:CONTAINS]->(m:Message): the matched messages
ContainedIn(threadId) ==
    {m \in messages : \E t \in ThreadsById(threadId) : <<t.nid, m.nid>> \in contains}

\* ORDER BY m.createdAt ASC: any order of the rows that is ascending in createdAt;
\* the statement names no second key, so rows with equal createdAt come in an
\* order the store chooses anew for each statement
\* a RETURN without its ORDER BY: the rows in any order
AnyOrder(ms) == Perms(ms)

OrderByCreatedAt(ms) ==
    {s \in Perms(ms) : \A i, j \in 1..Len(s) : i < j => s[i].createdAt <= s[j].createdAt}

\* mapNeo4jNodeToMessage
mapNeo4jNodeToMessage(m) ==
    [id |-> m.id, threadId |-> m.threadId, content |-> m.content, createdAt |-> m.createdAt]

MapRows(s) == [i \in 1..Len(s) |-> mapNeo4jNodeToMessage(s[i])]

---------------------------------------------------------------------------
(* createMessage: thread merge, message creation, entity linking *)

\* the synchronous head of createMessage: messageData and the merge parameters
\* (message.createdAt || now, message.resourceId || "default",
\*  message.title || "Auto-created Thread"), then the first await
CreateMessageWith(p, id, threadId, createdAt, content, resourceId, title) ==
    /\ Idle(p)
    /\ OpenSession(p)
    /\ call' = [call EXCEPT ![p] = [NoCall EXCEPT
                   !.op = "createMessage", !.id = id, !.threadId = threadId,
                   !.createdAt = IF createdAt = 0 THEN now ELSE createdAt,
                   !.content = content,
                   !.resourceId = IF resourceId = Absent THEN "default" ELSE resourceId,
                   !.title = IF title = Absent THEN "Auto-created Thread" ELSE title]]
    /\ Goto(p, "cm_merge")
    /\ Forget(p)
    /\ UNCHANGED <<hasInitialized, storageInitialized, schema, store, resources, now>>

\* createMessage for a message that carries neither resourceId nor title
CreateMessageCall(p, id, threadId, createdAt, content) ==
    CreateMessageWith(p, id, threadId, createdAt, content, Absent, Absent)

\* a statement failed: the exception leaves the try block for finally
Throw(p, closeAt) ==
    /\ call' = [call EXCEPT ![p].err = TRUE]
    /\ Goto(p, closeAt)

\* await session.run(`MERGE (t:Thread {id: $threadId}) ON CREATE SET ...`)
CreateMessageMerge(p, faults) ==
    /\ pc[p] = "cm_merge"
    /\ \E fault \in faults :
        IF fault
        THEN Throw(p, "cm_close") /\ UNCHANGED threads
        ELSE IF ThreadMergeIsAtomic
        THEN threads' = ThreadMerge(call[p]) /\ Goto(p, "cm_create") /\ UNCHANGED call
        ELSE /\ Goto(p, IF ThreadsById(call[p].threadId) # {} THEN "cm_create"
                        ELSE "cm_merge_create")
             /\ UNCHANGED <<threads, call>>
    /\ UNCHANGED <<hasInitialized, storageInitialized, schema, messages, contains,
                   entities, mentions, relations, resources, now, sess, ret>>

\* the create half of a MERGE that no constraint backs
CreateMessageMergeCreate(p) ==
    /\ pc[p] = "cm_merge_create"
    /\ IF ThreadCreateRefused(call[p].threadId)
       THEN Throw(p, "cm_close") /\ UNCHANGED threads
       ELSE threads' = ThreadMergeCreate(call[p]) /\ Goto(p, "cm_create") /\ UNCHANGED call
    /\ UNCHANGED <<hasInitialized, storageInitialized, schema, messages, contains,
                   entities, mentions, relations, resources, now, sess, ret>>

\* createMessageEntities up to its first await: where createMessage goes once the
\* message is written
AfterMessageCreate(c) ==
    LET ents == IF Length(c.content) < 3 THEN <<>> ELSE extractEntities(c.content)
    IN [ents |-> ents, pc |-> IF Len(ents) = 0 THEN "cm_close" ELSE "cm_entity"]

\* await session.run(`MATCH (t:Thread ...) CREATE (m:Message ...) CREATE (t)-[:CONTAINS]->(m)`);
\* if (!messageNode) throw new Error(...)
CreateMessageCreate(p, faults) ==
    /\ pc[p] = "cm_create"
    /\ \E fault \in faults :
        LET c == call[p]
            made == MessageCreate(c)
            next == AfterMessageCreate(c)
        IN IF fault \/ MessageCreateRefused(c) \/ made.nodes = {}
           THEN Throw(p, "cm_close") /\ UNCHANGED <<messages, contains>>
           ELSE /\ messages' = messages \cup made.nodes
                /\ contains' = contains \cup made.edges
                /\ call' = [call EXCEPT ![p].node = TRUE, ![p].ents = next.ents, ![p].k = 1]
                /\ Goto(p, next.pc)
    /\ UNCHANGED <<hasInitialized, storageInitialized, schema, threads, entities,
                   mentions, relations, resources, now, sess, ret>>

\* after the last createEntityNode: createEntityRelationships returns at once for
\* fewer than two entities, else its loop starts at the pair (0, 1)
AfterEntity(p, c) ==
    IF c.k < Len(c.ents)
    THEN /\ call' = [call EXCEPT ![p].k = c.k + 1]
         /\ Goto(p, "cm_entity")
    ELSE IF Len(c.ents) < 2
    THEN /\ call' = [call EXCEPT ![p].k = 0]
         /\ Goto(p, "cm_close")
    ELSE /\ call' = [call EXCEPT ![p].k = 1, ![p].j = 2]
         /\ Goto(p, "cm_rel")

\* a failed entity write that is not caught: createMessage throws
EntityWriteThrows(p, c) == Throw(p, "cm_close")

\* what a failed entity write does to createMessage: the catch block of
\* createEntityNode logs and the loop goes on
EntityWriteFailed(p, c) == AfterEntity(p, c)

\* createEntityNode(session, entity, messageData) called by itself, on a session of
\* the caller's, for a message with the given id
CreateEntityNodeCall(p, id, entity) ==
    /\ Idle(p)
    /\ OpenSession(p)
    /\ call' = [call EXCEPT ![p] = [NoCall EXCEPT
                   !.op = "createEntityNode", !.id = id, !.ents = <<entity>>, !.k = 1]]
    /\ Goto(p, "cm_entity")
    /\ Forget(p)
    /\ UNCHANGED <<hasInitialized, storageInitialized, schema, store, resources, now>>

\* createEntityNode: try { await session.run(`MATCH (m:Message {id}) MERGE (e:Entity ...)
\* ... CREATE (m)-[:MENTIONS]->(e)`) } catch { console.warn }
CreateEntityNode(p, faults) ==
    /\ pc[p] = "cm_entity"
    /\ \E fault \in faults :
        LET c == call[p]
            ent == c.ents[c.k]
            merged == EntityMergeMatch(c.id, ent)
        IN IF fault
           THEN EntityWriteFailed(p, c) /\ UNCHANGED <<entities, mentions>>
           ELSE IF MessagesById(c.id) # {} /\ EntitiesBy(ent.type, ent.value) = {}
           THEN Goto(p, "cm_entity_create") /\ UNCHANGED <<entities, mentions, call>>
           ELSE /\ entities' = merged.entities
                /\ mentions' = merged.mentions
                /\ AfterEntity(p, c)
    /\ UNCHANGED <<hasInitialized, storageInitialized, schema, threads, messages,
                   contains, relations, resources, now, sess, ret>>

\* the create half of MERGE (e:Entity {type, value}), which no constraint backs
CreateEntityNodeCreate(p) ==
    /\ pc[p] = "cm_entity_create"
    /\ LET c == call[p]
           made == EntityMergeCreate(c.id, c.ents[c.k])
       IN /\ entities' = made.entities
          /\ mentions' = made.mentions
          /\ AfterEntity(p, c)
    /\ UNCHANGED <<hasInitialized, storageInitialized, schema, threads, messages,
                   contains, relations, resources, now, sess, ret>>

\* createEntityRelationships: one try block around both loops, so the first
\* failed statement ends the loops; one awaited MERGE per pair i < j
CreateEntityRelationships(p, faults) ==
    /\ pc[p] = "cm_rel"
    /\ \E fault \in faults :
        LET c == call[p]
            n == Len(c.ents)
        IN IF fault
           THEN /\ call' = [call EXCEPT ![p].k = 0, ![p].j = 0]
                /\ Goto(p, "cm_close")
                /\ UNCHANGED relations
           ELSE /\ relations' = RelationMerge(c.ents[c.k], c.ents[c.j])
                /\ IF c.j < n
                   THEN call' = [call EXCEPT ![p].j = c.j + 1] /\ UNCHANGED pc
                   ELSE IF c.k + 1 < n
                   THEN call' = [call EXCEPT ![p].k = c.k + 1, ![p].j = c.k + 2] /\ UNCHANGED pc
                   ELSE call' = [call EXCEPT ![p].k = 0, ![p].j = 0] /\ Goto(p, "cm_close")
    /\ UNCHANGED <<hasInitialized, storageInitialized, schema, threads, messages,
                   contains, entities, mentions, resources, now, sess, ret>>

\* finally { await session.close(); }; return this.mapNeo4jNodeToMessage(messageNode)
CreateMessageClose(p) ==
    /\ pc[p] = "cm_close"
    /\ CloseSession(p)
    /\ LET c == call[p]
       IN Return(p, [NoRet EXCEPT
                        !.op = c.op, !.threadId = c.threadId, !.ids = {c.id},
                        !.status = IF c.err THEN "throw" ELSE "ok",
                        !.msgs = IF c.err THEN <<>> ELSE <<mapNeo4jNodeToMessage(c)>>])
    /\ UNCHANGED <<hasInitialized, storageInitialized, schema, store, resources, now>>

---------------------------------------------------------------------------
(* Thread and message writes *)

\* finally { await session.close(); } and the return or rethrow that follows
CloseAndReturn(p, r) ==
    /\ CloseSession(p)
    /\ Return(p, [r EXCEPT !.status = IF call[p].err THEN "throw" ELSE "ok"])

graphFrame == <<hasInitialized, storageInitialized, schema, resources, now>>

\* createThread (saveThread): thread.resourceId || "default", thread.title ||
\* "Untitled Thread", thread.createdAt || now, thread.updatedAt || now
CreateThreadCall(p, id, createdAt, updatedAt) ==
    /\ Idle(p)
    /\ OpenSession(p)
    /\ call' = [call EXCEPT ![p] = [NoCall EXCEPT
                   !.op = "createThread", !.threadId = id,
                   !.createdAt = IF createdAt = 0 THEN now ELSE createdAt,
                   !.k = IF updatedAt = 0 THEN now ELSE updatedAt,
                   !.resourceId = "default", !.title = "Untitled Thread"]]
    /\ Goto(p, "ct_run")
    /\ Forget(p)
    /\ UNCHANGED <<graphFrame, store>>

\* await session.run(`CREATE (t:Thread {...}) RETURN t`)
CreateThreadRun(p, faults) ==
    /\ pc[p] = "ct_run"
    /\ \E fault \in faults :
        LET c == call[p]
        IN IF fault \/ ThreadCreateRefused(c.threadId)
           THEN Throw(p, "ct_close") /\ UNCHANGED threads
           ELSE /\ threads' = threads \cup {NewThread(c.threadId, c.resourceId, c.title,
                                                      c.createdAt, c.k, "{}")}
                /\ Goto(p, "ct_close")
                /\ UNCHANGED call
    /\ UNCHANGED <<graphFrame, messages, contains, entities, mentions, relations, sess, ret>>

CreateThreadClose(p) ==
    /\ pc[p] = "ct_close"
    /\ CloseAndReturn(p, [NoRet EXCEPT !.op = "createThread", !.threadId = call[p].threadId])
    /\ UNCHANGED <<graphFrame, store>>

\* deleteThread -> deleteThreadById
DeleteThreadCall(p, id) ==
    /\ Idle(p)
    /\ OpenSession(p)
    /\ call' = [call EXCEPT ![p] = [NoCall EXCEPT !.op = "deleteThread", !.threadId = id]]
    /\ Goto(p, "dt_run")
    /\ Forget(p)
    /\ UNCHANGED <<graphFrame, store>>

\* await session.run(`MATCH (t:Thread {id: $threadId}) DETACH DELETE t`)
DeleteThreadRun(p, faults) ==
    /\ pc[p] = "dt_run"
    /\ \E fault \in faults :
        IF fault
        THEN Throw(p, "dt_close") /\ UNCHANGED <<threads, contains, messages, mentions>>
        ELSE /\ threads' = ThreadDetachDelete(call[p].threadId).threads
             /\ contains' = ThreadDetachDelete(call[p].threadId).contains
             /\ messages' = ThreadDetachDelete(call[p].threadId).messages
             /\ mentions' = ThreadDetachDelete(call[p].threadId).mentions
             /\ Goto(p, "dt_close")
             /\ UNCHANGED call
    /\ UNCHANGED <<graphFrame, entities, relations, sess, ret>>

DeleteThreadClose(p) ==
    /\ pc[p] = "dt_close"
    /\ CloseAndReturn(p, [NoRet EXCEPT !.op = "deleteThread", !.threadId = call[p].threadId])
    /\ UNCHANGED <<graphFrame, store>>

\* deleteMessage -> deleteMessageById (one id), deleteMessages (an id list;
\* if (messageIds.length === 0) return, before any session is opened)
DeleteMessagesCall(p, ids) ==
    /\ Idle(p)
    /\ IF ids = {}
       THEN /\ Return(p, [NoRet EXCEPT !.op = "deleteMessages", !.status = "ok", !.noop = TRUE])
            /\ UNCHANGED sess
       ELSE /\ OpenSession(p)
            /\ call' = [call EXCEPT ![p] = [NoCall EXCEPT !.op = "deleteMessages", !.ids = ids]]
            /\ Goto(p, "dm_run")
            /\ Forget(p)
    /\ UNCHANGED <<graphFrame, store>>

\* await session.run(`MATCH (m:Message) WHERE m.id IN $messageIds DETACH DELETE m`)
DeleteMessagesRun(p, faults) ==
    /\ pc[p] = "dm_run"
    /\ \E fault \in faults :
        IF fault
        THEN Throw(p, "dm_close") /\ UNCHANGED <<messages, contains, mentions, entities>>
        ELSE /\ messages' = MessageDetachDelete(call[p].ids).messages
             /\ contains' = MessageDetachDelete(call[p].ids).contains
             /\ mentions' = MessageDetachDelete(call[p].ids).mentions
             /\ entities' = EntitiesKept(call[p].ids)
             /\ Goto(p, "dm_close")
             /\ UNCHANGED call
    /\ UNCHANGED <<graphFrame, threads, relations, sess, ret>>

DeleteMessagesClose(p) ==
    /\ pc[p] = "dm_close"
    /\ CloseAndReturn(p, [NoRet EXCEPT !.op = "deleteMessages", !.ids = call[p].ids])
    /\ UNCHANGED <<graphFrame, store>>

\* updateMessage(messageId, updates): SET m.<key> = $<key> for every key but id;
\* the model's callers update content, threadId, or both (Absent: key not given)
UpdateMessageCall(p, id, content, threadId) ==
    /\ Idle(p)
    /\ OpenSession(p)
    /\ call' = [call EXCEPT ![p] = [NoCall EXCEPT
                   !.op = "updateMessage", !.id = id,
                   !.updates = [content |-> content, threadId |-> threadId]]]
    /\ Goto(p, "um_run")
    /\ Forget(p)
    /\ UNCHANGED <<graphFrame, store>>

\* the SET clause applied to one Message node
MessageSet(m, content, threadId) ==
    [m EXCEPT !.content = IF content = Absent THEN @ ELSE content,
              !.threadId = IF threadId = Absent THEN @ ELSE threadId]

\* await session.run(`MATCH (m:Message {id}) SET ${setClause} RETURN m`); an empty
\* setClause is a statement the store rejects; no record: return null
UpdateMessageRun(p, faults) ==
    /\ pc[p] = "um_run"
    /\ \E fault \in faults :
        LET c == call[p]
            set == {MessageSet(m, c.updates.content, c.updates.threadId) : m \in MessagesById(c.id)}
        IN IF fault \/ (c.updates.content = Absent /\ c.updates.threadId = Absent)
           THEN Throw(p, "um_close") /\ UNCHANGED messages
           ELSE /\ messages' = (messages \ MessagesById(c.id)) \cup set
                /\ \E rows \in Perms(set) :
                      call' = [call EXCEPT ![p].rows = MapRows(SubSeq(rows, 1, Min(1, Len(rows))))]
                /\ Goto(p, "um_close")
    /\ UNCHANGED <<graphFrame, threads, contains, entities, mentions, relations, sess, ret>>

UpdateMessageClose(p) ==
    /\ pc[p] = "um_close"
    /\ CloseAndReturn(p, [NoRet EXCEPT !.op = "updateMessage", !.ids = {call[p].id},
                                        !.msgs = call[p].rows])
    /\ UNCHANGED <<graphFrame, store>>

---------------------------------------------------------------------------
(* Thread lookups and updates *)

\* the wall clock moves on between two statements
Tick ==
    /\ now < MaxTime
    /\ now' = now + 1
    /\ UNCHANGED <<hasInitialized, storageInitialized, schema, resources, store, pc, call,
                   sess, ret>>

mapNeo4jNodeToThread(t) ==
    [id |-> t.id, resourceId |-> t.resourceId, title |-> t.title,
     createdAt |-> t.createdAt, updatedAt |-> t.updatedAt, metadata |-> t.metadata]

\* result.records.length === 0 ? null : map(result.records[0]): the empty sequence
\* stands for null
FirstRow(rows) == IF rows = <<>> THEN <<>> ELSE <<rows[1]>>

\* getThread -> getThreadById({threadId})
GetThreadByIdCall(p, id) ==
    /\ Idle(p)
    /\ OpenSession(p)
    /\ call' = [call EXCEPT ![p] = [NoCall EXCEPT !.op = "getThreadById", !.threadId = id]]
    /\ Goto(p, "gt_run")
    /\ Forget(p)
    /\ UNCHANGED <<graphFrame, store>>

\* await session.run(`MATCH (t:Thread {id: $threadId}) RETURN t`)
GetThreadByIdRun(p, faults) ==
    /\ pc[p] = "gt_run"
    /\ \E fault \in faults :
        IF fault
        THEN Throw(p, "gt_close")
        ELSE /\ \E rows \in Perms(ThreadsById(call[p].threadId)) :
                  call' = [call EXCEPT ![p].rows =
                              FirstRow([i \in 1..Len(rows) |-> mapNeo4jNodeToThread(rows[i])])]
             /\ Goto(p, "gt_close")
    /\ UNCHANGED <<graphFrame, store, sess, ret>>

GetThreadByIdClose(p) ==
    /\ pc[p] = "gt_close"
    /\ CloseAndReturn(p, [NoRet EXCEPT !.op = "getThreadById", !.threadId = call[p].threadId,
                                        !.msgs = call[p].rows])
    /\ UNCHANGED <<graphFrame, store>>

\* updateThread(threadId, updates): SET t.<key> = $<key> for every key but id, then
\* t.updatedAt = datetime(); the model's callers update title, createdAt, or both
\* (Absent, 0: key not given)
UpdateThreadCall(p, id, title, createdAt) ==
    /\ Idle(p)
    /\ OpenSession(p)
    /\ call' = [call EXCEPT ![p] = [NoCall EXCEPT
                   !.op = "updateThread", !.threadId = id, !.title = title,
                   !.createdAt = createdAt]]
    /\ Goto(p, "ut_run")
    /\ Forget(p)
    /\ UNCHANGED <<graphFrame, store>>

\* the SET clause applied to one Thread node
ThreadSet(t, title, createdAt) ==
    [t EXCEPT !.title = IF title = Absent THEN @ ELSE title,
              !.createdAt = IF createdAt = 0 THEN @ ELSE createdAt,
              !.updatedAt = now]

\* await session.run(`MATCH (t:Thread {id}) SET ${setClause}, t.updatedAt = datetime()
\* RETURN t`); with no key the statement starts "SET ," and the store rejects it
UpdateThreadRun(p, faults) ==
    /\ pc[p] = "ut_run"
    /\ \E fault \in faults :
        LET c == call[p]
            set == {ThreadSet(t, c.title, c.createdAt) : t \in ThreadsById(c.threadId)}
        IN IF fault \/ (c.title = Absent /\ c.createdAt = 0)
           THEN Throw(p, "ut_close") /\ UNCHANGED threads
           ELSE /\ threads' = (threads \ ThreadsById(c.threadId)) \cup set
                /\ \E rows \in Perms(set) :
                      call' = [call EXCEPT ![p].rows =
                                  FirstRow([i \in 1..Len(rows) |-> mapNeo4jNodeToThread(rows[i])])]
                /\ Goto(p, "ut_close")
    /\ UNCHANGED <<graphFrame, messages, contains, entities, mentions, relations, sess, ret>>

UpdateThreadClose(p) ==
    /\ pc[p] = "ut_close"
    /\ CloseAndReturn(p, [NoRet EXCEPT !.op = "updateThread", !.threadId = call[p].threadId,
                                        !.msgs = call[p].rows])
    /\ UNCHANGED <<graphFrame, store>>

---------------------------------------------------------------------------
(* Resources *)

ResourcesById(id) == {r \in resources : r.id = id}

mapNeo4jNodeToResource(r) == [id |-> r.id, metadata |-> r.metadata, updatedAt |-> r.updatedAt]

\* saveResource(resource): metadata is JSON.stringify(resource.metadata || {})
SaveResourceCall(p, id) ==
    /\ Idle(p)
    /\ OpenSession(p)
    /\ call' = [call EXCEPT ![p] = [NoCall EXCEPT !.op = "saveResource", !.resourceId = id]]
    /\ Goto(p, "sr_run")
    /\ Forget(p)
    /\ UNCHANGED <<graphFrame, store>>

\* MERGE (r:Resource {id: $id}) SET r.metadata = $metadata, r.updatedAt = datetime():
\* every matched node is set, a node is created when none matches (the callers of
\* the model save resources one at a time)
ResourceMerge(id) ==
    IF ResourcesById(id) = {}
    THEN resources \cup {[nid |-> <<id, 0>>, id |-> id, metadata |-> "{}", updatedAt |-> now]}
    ELSE {IF r.id = id THEN [r EXCEPT !.metadata = "{}", !.updatedAt = now] ELSE r
            : r \in resources}

SaveResourceRun(p, faults) ==
    /\ pc[p] = "sr_run"
    /\ \E fault \in faults :
        IF fault
        THEN Throw(p, "sr_close") /\ UNCHANGED resources
        ELSE /\ resources' = ResourceMerge(call[p].resourceId)
             /\ Goto(p, "sr_close")
             /\ UNCHANGED call
    /\ UNCHANGED <<hasInitialized, storageInitialized, schema, now, store, sess, ret>>

SaveResourceClose(p) ==
    /\ pc[p] = "sr_close"
    /\ CloseAndReturn(p, [NoRet EXCEPT !.op = "saveResource", !.ids = {call[p].resourceId}])
    /\ UNCHANGED <<graphFrame, store>>

\* getResourceById({resourceId})
GetResourceByIdCall(p, id) ==
    /\ Idle(p)
    /\ OpenSession(p)
    /\ call' = [call EXCEPT ![p] = [NoCall EXCEPT !.op = "getResourceById", !.resourceId = id]]
    /\ Goto(p, "gr_run")
    /\ Forget(p)
    /\ UNCHANGED <<graphFrame, store>>

\* await session.run(`MATCH (r:Resource {id: $resourceId}) RETURN r`)
GetResourceByIdRun(p, faults) ==
    /\ pc[p] = "gr_run"
    /\ \E fault \in faults :
        IF fault
        THEN Throw(p, "gr_close")
        ELSE /\ \E rows \in Perms(ResourcesById(call[p].resourceId)) :
                  call' = [call EXCEPT ![p].rows =
                              FirstRow([i \in 1..Len(rows) |-> mapNeo4jNodeToResource(rows[i])])]
             /\ Goto(p, "gr_close")
    /\ UNCHANGED <<graphFrame, store, sess, ret>>

GetResourceByIdClose(p) ==
    /\ pc[p] = "gr_close"
    /\ CloseAndReturn(p, [NoRet EXCEPT !.op = "getResourceById", !.ids = {call[p].resourceId},
                                        !.msgs = call[p].rows])
    /\ UNCHANGED <<graphFrame, store>>

---------------------------------------------------------------------------
(* Reads *)

\* getMessagesByThreadId: const limit = Math.floor(options?.limit || 100),
\* const offset = Math.floor(options?.offset || 0)
ListLimit(limit) == IF limit = 0 THEN DefaultLimit ELSE limit

\* resolveMessageLimit({last, defaultLimit}): declared by the class, called by
\* none of its methods
resolveMessageLimit(last, defaultLimit) ==
    IF last.kind = "false" THEN 0
    ELSE IF last.kind = "number" THEN last.n
    ELSE defaultLimit

\* getMessages: const limit = typeof last === "number" ? last : 100
GetMessagesLimit(last) == IF last.kind = "number" THEN last.n ELSE DefaultLimit

\* the rows of MATCH (t:Thread {id})-[r:CONTAINS]->(m:Message) RETURN t, r, m
\* ORDER BY m.createdAt ASC SKIP $offset LIMIT $limit, in each order the store may give
ListRows(threadId, offset, limit) ==
    {MapRows(SkipLimit(s, offset, limit)) : s \in OrderByCreatedAt(ContainedIn(threadId))}

\* getMessagesByThreadId(threadId, {limit, offset}) up to its await
GetMessagesByThreadIdCall(p, threadId, limit, offset) ==
    /\ Idle(p)
    /\ OpenSession(p)
    /\ call' = [call EXCEPT ![p] = [NoCall EXCEPT
                   !.op = "getMessagesByThreadId", !.threadId = threadId,
                   !.limit = ListLimit(limit), !.offset = offset]]
    /\ Goto(p, "gm_run")
    /\ Forget(p)
    /\ UNCHANGED <<graphFrame, store>>

\* getMessages(args): the limit from selectBy.last, then getMessagesByThreadId
GetMessagesCall(p, threadId, last) ==
    /\ Idle(p)
    /\ OpenSession(p)
    /\ call' = [call EXCEPT ![p] = [NoCall EXCEPT
                   !.op = "getMessages", !.threadId = threadId, !.last = last,
                   !.limit = ListLimit(GetMessagesLimit(last)), !.offset = 0]]
    /\ Goto(p, "gm_run")
    /\ Forget(p)
    /\ UNCHANGED <<graphFrame, store>>

\* await session.run(...) of getMessagesByThreadId
GetMessagesByThreadIdRun(p, faults) ==
    /\ pc[p] = "gm_run"
    /\ \E fault \in faults :
        IF fault
        THEN Throw(p, "gm_close")
        ELSE /\ \E rows \in ListRows(call[p].threadId, call[p].offset, call[p].limit) :
                  call' = [call EXCEPT ![p].rows = rows]
             /\ Goto(p, "gm_close")
    /\ UNCHANGED <<graphFrame, store, sess, ret>>

GetMessagesByThreadIdClose(p) ==
    /\ pc[p] = "gm_close"
    /\ CloseAndReturn(p, [NoRet EXCEPT !.op = call[p].op, !.threadId = call[p].threadId,
                                        !.last = call[p].last, !.msgs = call[p].rows])
    /\ UNCHANGED <<graphFrame, store>>

\* getMessagesPaginated: page = pagination.page || 0, perPage = pagination.perPage || 10,
\* offset = page * perPage; the count statement is awaited first
GetMessagesPaginatedCall(p, threadId, page, perPage) ==
    /\ Idle(p)
    /\ OpenSession(p)
    /\ call' = [call EXCEPT ![p] = [NoCall EXCEPT
                   !.op = "getMessagesPaginated", !.threadId = threadId, !.page = page,
                   !.perPage = IF perPage = 0 THEN DefaultPerPage ELSE perPage]]
    /\ Goto(p, "gp_count")
    /\ UNCHANGED <<graphFrame, store, ret>>

\* MATCH (t:Thread {id})-[r:CONTAINS]->(m:Message) RETURN count(m) as total
CountContained(threadId) ==
    Cardinality({e \in contains : e[1] \in {t.nid : t \in ThreadsById(threadId)}})

\* the count statement; then getMessagesByThreadId opens its own session
GetMessagesPaginatedCount(p, faults) ==
    /\ pc[p] = "gp_count"
    /\ \E fault \in faults :
        IF fault
        THEN Throw(p, "gp_close") /\ UNCHANGED sess
        ELSE /\ call' = [call EXCEPT ![p].total = CountContained(call[p].threadId),
                                     ![p].limit = ListLimit(call[p].perPage),
                                     ![p].offset = call[p].page * call[p].perPage]
             /\ OpenSession(p)
             /\ Goto(p, "gp_list")
    /\ UNCHANGED <<graphFrame, store, ret>>

\* the list statement of the nested getMessagesByThreadId
GetMessagesPaginatedList(p, faults) ==
    /\ pc[p] = "gp_list"
    /\ \E fault \in faults :
        IF fault
        THEN Throw(p, "gp_close_list")
        ELSE /\ \E rows \in ListRows(call[p].threadId, call[p].offset, call[p].limit) :
                  call' = [call EXCEPT ![p].rows = rows]
             /\ Goto(p, "gp_close_list")
    /\ UNCHANGED <<graphFrame, store, sess, ret>>

\* finally of the nested getMessagesByThreadId
GetMessagesPaginatedCloseList(p) ==
    /\ pc[p] = "gp_close_list"
    /\ CloseSession(p)
    /\ Goto(p, "gp_close")
    /\ UNCHANGED <<graphFrame, store, call, ret>>

\* const hasMore = (page + 1) * perPage < total
HasMore(page, perPage, total) == (page + 1) * perPage < total

\* what a caller that reads the pages 0, 1, 2, ... of one thread with one page size
\* has collected: any other call starts over
PagesRead(p, c, result) ==
    IF /\ ret[p].op = "getMessagesPaginated" /\ ret[p].status = "ok"
       /\ ret[p].threadId = c.threadId /\ ret[p].perPage = c.perPage
       /\ c.page = Len(ret[p].pages)
    THEN Append(ret[p].pages, result)
    ELSE IF c.page = 0 THEN <<result>> ELSE <<>>

\* finally of getMessagesPaginated, and return {messages, total, page, perPage, hasMore}
GetMessagesPaginatedClose(p) ==
    /\ pc[p] = "gp_close"
    /\ LET c == call[p]
           hasMore == HasMore(c.page, c.perPage, c.total)
           result == [msgs |-> c.rows, hasMore |-> hasMore]
       IN CloseAndReturn(p, [NoRet EXCEPT
              !.op = "getMessagesPaginated", !.threadId = c.threadId, !.msgs = c.rows,
              !.total = c.total, !.page = c.page, !.perPage = c.perPage,
              !.hasMore = hasMore /\ ~c.err,
              !.pages = IF c.err THEN <<>> ELSE PagesRead(p, c, result)])
    /\ UNCHANGED <<graphFrame, store>>

\* getMessagesById: if (messageIds.length === 0) return []
GetMessagesByIdCall(p, ids) ==
    /\ Idle(p)
    /\ IF ids = {}
       THEN /\ Return(p, [NoRet EXCEPT !.op = "getMessagesById", !.status = "ok", !.noop = TRUE])
            /\ UNCHANGED sess
       ELSE /\ OpenSession(p)
            /\ call' = [call EXCEPT ![p] = [NoCall EXCEPT !.op = "getMessagesById", !.ids = ids]]
            /\ Goto(p, "gi_run")
            /\ Forget(p)
    /\ UNCHANGED <<graphFrame, store>>

\* MATCH (m:Message) WHERE m.id IN $messageIds RETURN m ORDER BY m.createdAt ASC
ByIdRows(ms, ids) == {MapRows(s) : s \in OrderByCreatedAt({m \in ms : m.id \in ids})}

GetMessagesByIdRun(p, faults) ==
    /\ pc[p] = "gi_run"
    /\ \E fault \in faults :
        IF fault
        THEN Throw(p, "gi_close")
        ELSE /\ \E rows \in ByIdRows(messages, call[p].ids) :
                  call' = [call EXCEPT ![p].rows = rows]
             /\ Goto(p, "gi_close")
    /\ UNCHANGED <<graphFrame, store, sess, ret>>

GetMessagesByIdClose(p) ==
    /\ pc[p] = "gi_close"
    /\ CloseAndReturn(p, [NoRet EXCEPT !.op = "getMessagesById", !.ids = call[p].ids,
                                        !.msgs = call[p].rows])
    /\ UNCHANGED <<graphFrame, store>>

---------------------------------------------------------------------------
(* batch *)

\* the statements the model's callers put in a batch: a CREATE of a Thread node
\* and a MERGE ... SET of a Resource node
Statements ==
    {[kind |-> "create_thread", id |-> t] : t \in ThreadIds}
        \cup {[kind |-> "merge_resource", id |-> r] : r \in {"r1"}}

\* session.run(operation.query, operation.parameters) in auto-commit mode: the
\* statement's effect is committed when the call resolves
StatementRefused(op) == op.kind = "create_thread" /\ ThreadCreateRefused(op.id)

StatementEffect(op) ==
    IF op.kind = "create_thread"
    THEN [threads |-> threads \cup {NewThread(op.id, "default", "Untitled Thread", now, now, "{}")},
          resources |-> resources]
    ELSE [threads |-> threads, resources |-> ResourceMerge(op.id)]

\* batch(operations): const results = []; for (const operation of operations) ...
BatchCall(p, ops) ==
    /\ Idle(p)
    /\ OpenSession(p)
    /\ call' = [call EXCEPT ![p] = [NoCall EXCEPT !.op = "batch", !.ops = ops, !.k = 1]]
    /\ Goto(p, IF ops = <<>> THEN "b_close" ELSE "b_run")
    /\ Forget(p)
    /\ UNCHANGED <<graphFrame, store>>

\* a batch that goes on with the next statement after a failed one
BatchStatementSkipped(p) ==
    /\ call' = [call EXCEPT ![p].k = @ + 1]
    /\ Goto(p, IF call[p].k = Len(call[p].ops) THEN "b_close" ELSE "b_run")

\* a throw of session.run leaves the loop for the finally block
BatchStatementFailed(p) == Throw(p, "b_close")

\* const result = await session.run(...); results.push(...)
BatchRun(p, faults) ==
    /\ pc[p] = "b_run"
    /\ \E fault \in faults :
        LET c == call[p]
            op == c.ops[c.k]
        IN IF fault \/ StatementRefused(op)
           THEN BatchStatementFailed(p) /\ UNCHANGED <<threads, resources>>
           ELSE /\ threads' = StatementEffect(op).threads
                /\ resources' = StatementEffect(op).resources
                /\ call' = [call EXCEPT ![p].k = c.k + 1]
                /\ Goto(p, IF c.k = Len(c.ops) THEN "b_close" ELSE "b_run")
    /\ UNCHANGED <<hasInitialized, storageInitialized, schema, now, messages, contains,
                   entities, mentions, relations, sess, ret>>

\* finally { await session.close(); }; return results
BatchClose(p) ==
    /\ pc[p] = "b_close"
    /\ CloseAndReturn(p, [NoRet EXCEPT !.op = "batch", !.total = call[p].k - 1])
    /\ UNCHANGED <<graphFrame, store>>

---------------------------------------------------------------------------
(* healthCheck *)

\* try { const session = this.driver.session(...); await session.run("RETURN 1"):
\* a throw of driver.session() is caught like any other
HealthCheckCall(p, faults) ==
    /\ Idle(p)
    /\ sess[p] < MaxLeakedSessions
    /\ \E fault \in faults :
        IF fault
        THEN /\ call' = [call EXCEPT ![p] = [NoCall EXCEPT !.op = "healthCheck", !.err = TRUE]]
             /\ Goto(p, "hc_catch")
             /\ UNCHANGED sess
        ELSE /\ call' = [call EXCEPT ![p] = [NoCall EXCEPT !.op = "healthCheck"]]
             /\ Goto(p, "hc_run")
             /\ OpenSession(p)
    /\ Forget(p)
    /\ UNCHANGED <<graphFrame, store>>

\* await session.run("RETURN 1"); on a failure control goes to the catch block,
\* past the await session.close() of the try block
HealthCheckRun(p, faults) ==
    /\ pc[p] = "hc_run"
    /\ \E fault \in faults :
        IF fault
        THEN Throw(p, "hc_catch")
        ELSE Goto(p, "hc_close") /\ UNCHANGED call
    /\ UNCHANGED <<graphFrame, store, sess, ret>>

\* await session.close(); return true.  A close that throws is caught too; whether
\* the driver released the session before it threw is the driver's business
HealthCheckClose(p, faults) ==
    /\ pc[p] = "hc_close"
    /\ \E fault \in faults :
        IF fault
        THEN /\ Throw(p, "hc_catch")
             /\ \E released \in BOOLEAN :
                  IF released THEN CloseSession(p) ELSE UNCHANGED sess
             /\ UNCHANGED ret
        ELSE /\ CloseSession(p)
             /\ Return(p, [NoRet EXCEPT !.op = "healthCheck", !.status = "ok",
                                        !.healthy = TRUE])
    /\ UNCHANGED <<graphFrame, store>>

\* a catch block that passes the error on
HealthCheckRethrows(p) ==
    Return(p, [NoRet EXCEPT !.op = "healthCheck", !.status = "throw"])

\* catch (error) { return false; }
HealthCheckCaught(p) ==
    Return(p, [NoRet EXCEPT !.op = "healthCheck", !.status = "ok", !.healthy = FALSE])

HealthCheckCatch(p) ==
    /\ pc[p] = "hc_catch"
    /\ HealthCheckCaught(p)
    /\ UNCHANGED <<graphFrame, store, sess>>

---------------------------------------------------------------------------
(* Initial state: a constructed Neo4jStorage over an empty database *)

Init ==
    /\ hasInitialized = FALSE
    /\ storageInitialized = FALSE
    /\ schema = {}
    /\ threads = {}
    /\ messages = {}
    /\ contains = {}
    /\ entities = {}
    /\ mentions = {}
    /\ relations = {}
    /\ resources = {}
    /\ now = 1
    /\ pc = [p \in Procs |-> "idle"]
    /\ call = [p \in Procs |-> NoCall]
    /\ sess = [p \in Procs |-> 0]
    /\ ret = [p \in Procs |-> NoRet]

---------------------------------------------------------------------------
(* Spec: one caller at a time runs the facade's methods; every statement may fail *)

Caller == "p1"

\* the caller follows the documented order: initialize() first, then the graph methods
Ready(p) == hasInitialized /\ Idle(p)

Next ==
    \/ InitializeDone
    \/ Ready(Caller) /\ CreateThreadCall(Caller, "t1", 0, 0)
    \/ CreateThreadRun(Caller, BOOLEAN)
    \/ CreateThreadClose(Caller)
    \/ /\ Ready(Caller)
       /\ \E id \in {"m1", "m2"} : CreateMessageCall(Caller, id, "t1", 0, "Why python?")
    \/ CreateMessageMerge(Caller, BOOLEAN)
    \/ CreateMessageCreate(Caller, BOOLEAN)
    \/ CreateEntityNode(Caller, BOOLEAN)
    \/ CreateEntityNodeCreate(Caller)
    \/ CreateEntityRelationships(Caller, BOOLEAN)
    \/ CreateMessageClose(Caller)
    \/ Ready(Caller) /\ \E id \in {"m1", "m2"} : UpdateMessageCall(Caller, id, "ok", Absent)
    \/ UpdateMessageRun(Caller, BOOLEAN)
    \/ UpdateMessageClose(Caller)
    \/ /\ Ready(Caller)
       /\ \E ids \in (SUBSET {"m1", "m2"}) \ {{}} : DeleteMessagesCall(Caller, ids)
    \/ DeleteMessagesRun(Caller, BOOLEAN)
    \/ DeleteMessagesClose(Caller)
    \/ Ready(Caller) /\ DeleteThreadCall(Caller, "t1")
    \/ DeleteThreadRun(Caller, BOOLEAN)
    \/ DeleteThreadClose(Caller)
    \/ Ready(Caller) /\ \E ids \in (SUBSET {"m1", "m2"}) \ {{}} : GetMessagesByIdCall(Caller, ids)
    \/ GetMessagesByIdRun(Caller, BOOLEAN)
    \/ GetMessagesByIdClose(Caller)

Spec == Init /\ [][Next]_vars

---------------------------------------------------------------------------
(* SpecInit: concurrent callers of the schema bootstrap, statements may fail *)

NextInit ==
    \E p \in Procs :
        \/ InitializeCall(p)
        \/ EnsureStorageInitializedCall(p)
        \/ InitializeRun(p, BOOLEAN)
        \/ InitializeClose(p)

SpecInit == Init /\ [][NextInit]_vars

---------------------------------------------------------------------------
(* SpecConc: two callers, one createMessage each, interleaved statement by
   statement; the schema bootstrap may have run before, as one step *)

NextConc ==
    \/ InitializeDone
    \/ \E p \in Procs :
        \/ /\ ret[p].status = "none"
           /\ \E id \in {"m1", "m2"}, content \in {"", "I use neo4j"} :
                CreateMessageCall(p, id, "t1", 1, content)
        \/ CreateMessageMerge(p, {FALSE})
        \/ CreateMessageMergeCreate(p)
        \/ CreateMessageCreate(p, {FALSE})
        \/ CreateEntityNode(p, {FALSE})
        \/ CreateEntityNodeCreate(p)
        \/ CreateMessageClose(p)

SpecConc == Init /\ [][NextConc]_vars

---------------------------------------------------------------------------
(* Reads of a thread: getMessages, getMessagesByThreadId, getMessagesPaginated *)

\* the values of selectBy.last
Lasts ==
    {[kind |-> "undefined", n |-> 0], [kind |-> "false", n |-> 0]}
        \cup {[kind |-> "number", n |-> n] : n \in 0..MaxLimit}

NextRead ==
    \/ InitializeDone
    \/ /\ Ready(Caller)
       /\ \E id \in MsgIds, createdAt \in Times :
            /\ MessagesById(id) = {}
            /\ CreateMessageCall(Caller, id, "t1", createdAt, "")
    \/ CreateMessageMerge(Caller, {FALSE})
    \/ CreateMessageCreate(Caller, {FALSE})
    \/ CreateMessageClose(Caller)
    \/ Ready(Caller) /\ \E t \in ThreadIds, last \in Lasts : GetMessagesCall(Caller, t, last)
    \/ /\ Ready(Caller)
       /\ \E limit \in 0..MaxLimit, offset \in 0..1 :
            GetMessagesByThreadIdCall(Caller, "t1", limit, offset)
    \/ GetMessagesByThreadIdRun(Caller, {FALSE})
    \/ GetMessagesByThreadIdClose(Caller)
    \/ /\ Ready(Caller)
       /\ \E page \in 0..Cardinality(messages), perPage \in 0..MaxLimit :
            GetMessagesPaginatedCall(Caller, "t1", page, perPage)
    \/ GetMessagesPaginatedCount(Caller, {FALSE})
    \/ GetMessagesPaginatedList(Caller, {FALSE})
    \/ GetMessagesPaginatedCloseList(Caller)
    \/ GetMessagesPaginatedClose(Caller)

SpecRead == Init /\ [][NextRead]_vars

---------------------------------------------------------------------------
(* Entity upserts, one after the other, for one stored message *)

Confidences == {6, 8, 9}

NextEntity ==
    \/ InitializeDone
    \/ Ready(Caller) /\ messages = {} /\ CreateMessageCall(Caller, "m1", "t1", 1, "")
    \/ CreateMessageMerge(Caller, {FALSE})
    \/ CreateMessageCreate(Caller, {FALSE})
    \/ CreateMessageClose(Caller)
    \/ /\ Ready(Caller)
       /\ messages # {}
       /\ Cardinality(mentions) < MaxUpserts
       /\ \E value \in {"neo4j", "python"}, confidence \in Confidences :
            CreateEntityNodeCall(Caller, "m1", [type |-> "Technology", value |-> value,
                                                confidence |-> confidence])
    \/ CreateEntityNode(Caller, {FALSE})
    \/ CreateEntityNodeCreate(Caller)

SpecEntity == Init /\ [][NextEntity]_vars

---------------------------------------------------------------------------
(* Sessions: every modelled method that opens one, with failing statements *)

NextSession ==
    \/ InitializeCall(Caller)
    \/ InitializeRun(Caller, BOOLEAN)
    \/ InitializeClose(Caller)
    \/ Ready(Caller) /\ CreateThreadCall(Caller, "t1", 0, 0)
    \/ CreateThreadRun(Caller, BOOLEAN)
    \/ CreateThreadClose(Caller)
    \/ Ready(Caller) /\ CreateMessageCall(Caller, "m1", "t1", 0, "I use neo4j")
    \/ CreateMessageMerge(Caller, BOOLEAN)
    \/ CreateMessageCreate(Caller, BOOLEAN)
    \/ CreateEntityNode(Caller, BOOLEAN)
    \/ CreateEntityNodeCreate(Caller)
    \/ CreateMessageClose(Caller)
    \/ Ready(Caller) /\ UpdateMessageCall(Caller, "m1", "ok", Absent)
    \/ UpdateMessageRun(Caller, BOOLEAN)
    \/ UpdateMessageClose(Caller)
    \/ Ready(Caller) /\ DeleteMessagesCall(Caller, {"m1"})
    \/ DeleteMessagesRun(Caller, BOOLEAN)
    \/ DeleteMessagesClose(Caller)
    \/ Ready(Caller) /\ DeleteThreadCall(Caller, "t1")
    \/ DeleteThreadRun(Caller, BOOLEAN)
    \/ DeleteThreadClose(Caller)
    \/ Ready(Caller) /\ GetMessagesByIdCall(Caller, {"m1"})
    \/ GetMessagesByIdRun(Caller, BOOLEAN)
    \/ GetMessagesByIdClose(Caller)
    \/ Ready(Caller) /\ GetMessagesCall(Caller, "t1", [kind |-> "undefined", n |-> 0])
    \/ GetMessagesByThreadIdRun(Caller, BOOLEAN)
    \/ GetMessagesByThreadIdClose(Caller)
    \/ Ready(Caller) /\ GetMessagesPaginatedCall(Caller, "t1", 0, 1)
    \/ GetMessagesPaginatedCount(Caller, BOOLEAN)
    \/ GetMessagesPaginatedList(Caller, BOOLEAN)
    \/ GetMessagesPaginatedCloseList(Caller)
    \/ GetMessagesPaginatedClose(Caller)
    \/ HealthCheckCall(Caller, BOOLEAN)
    \/ HealthCheckRun(Caller, BOOLEAN)
    \/ HealthCheckClose(Caller, BOOLEAN)
    \/ HealthCheckCatch(Caller)

SpecSession == Init /\ [][NextSession]_vars

---------------------------------------------------------------------------
(* Threads: explicit creation with and without timestamps, auto-creation, update *)

NextThread ==
    \/ InitializeDone
    \/ Tick
    \/ /\ Ready(Caller)
       /\ \E createdAt, updatedAt \in 0..MaxTime :
            CreateThreadCall(Caller, "t1", createdAt, updatedAt)
    \/ CreateThreadRun(Caller, BOOLEAN)
    \/ CreateThreadClose(Caller)
    \/ /\ Ready(Caller)
       /\ \E createdAt \in 0..MaxTime, resourceId \in {Absent, "r1"}, title \in {Absent, "Mine"} :
            CreateMessageWith(Caller, "m1", "t1", createdAt, "", resourceId, title)
    \/ CreateMessageMerge(Caller, {FALSE})
    \/ CreateMessageCreate(Caller, {FALSE})
    \/ CreateMessageClose(Caller)
    \/ /\ Ready(Caller)
       /\ \E t \in ThreadIds, title \in {Absent, "Renamed"}, createdAt \in 0..MaxTime :
            UpdateThreadCall(Caller, t, title, createdAt)
    \/ UpdateThreadRun(Caller, BOOLEAN)
    \/ UpdateThreadClose(Caller)
    \/ Ready(Caller) /\ DeleteThreadCall(Caller, "t1")
    \/ DeleteThreadRun(Caller, {FALSE})
    \/ DeleteThreadClose(Caller)
    \/ Ready(Caller) /\ \E t \in ThreadIds : GetThreadByIdCall(Caller, t)
    \/ GetThreadByIdRun(Caller, BOOLEAN)
    \/ GetThreadByIdClose(Caller)

SpecThread == Init /\ [][NextThread]_vars

---------------------------------------------------------------------------
(* Lookups and updates by id, for ids that are and are not in the store *)

ResourceIds == {"r1", "r2"}

NextLookup ==
    \/ InitializeDone
    \/ /\ Ready(Caller)
       /\ \E id \in {"m1", "m2"}, createdAt \in Times :
            /\ MessagesById(id) = {}
            /\ CreateMessageCall(Caller, id, "t1", createdAt, "")
    \/ CreateMessageMerge(Caller, {FALSE})
    \/ CreateMessageCreate(Caller, {FALSE})
    \/ CreateMessageClose(Caller)
    \/ Ready(Caller) /\ ResourcesById("r1") = {} /\ SaveResourceCall(Caller, "r1")
    \/ SaveResourceRun(Caller, {FALSE})
    \/ SaveResourceClose(Caller)
    \/ Ready(Caller) /\ \E t \in ThreadIds : GetThreadByIdCall(Caller, t)
    \/ GetThreadByIdRun(Caller, {FALSE})
    \/ GetThreadByIdClose(Caller)
    \/ Ready(Caller) /\ \E r \in ResourceIds : GetResourceByIdCall(Caller, r)
    \/ GetResourceByIdRun(Caller, {FALSE})
    \/ GetResourceByIdClose(Caller)
    \/ Ready(Caller) /\ \E t \in ThreadIds : UpdateThreadCall(Caller, t, "Renamed", 0)
    \/ UpdateThreadRun(Caller, {FALSE})
    \/ UpdateThreadClose(Caller)
    \/ Ready(Caller) /\ \E id \in MsgIds : UpdateMessageCall(Caller, id, "ok", Absent)
    \/ UpdateMessageRun(Caller, {FALSE})
    \/ UpdateMessageClose(Caller)
    \/ Ready(Caller) /\ \E ids \in (SUBSET MsgIds) \ {{}} : GetMessagesByIdCall(Caller, ids)
    \/ GetMessagesByIdRun(Caller, {FALSE})
    \/ GetMessagesByIdClose(Caller)

SpecLookup == Init /\ [][NextLookup]_vars

---------------------------------------------------------------------------
(* Batches of up to MaxBatch statements, with failing statements *)

Batches == UNION {[1..n -> Statements] : n \in 0..MaxBatch}

NextBatch ==
    \/ InitializeDone
    \/ Ready(Caller) /\ \E ops \in Batches : BatchCall(Caller, ops)
    \/ BatchRun(Caller, BOOLEAN)
    \/ BatchClose(Caller)
    \/ Ready(Caller) /\ \E t \in ThreadIds : DeleteThreadCall(Caller, t)
    \/ DeleteThreadRun(Caller, {FALSE})
    \/ DeleteThreadClose(Caller)

SpecBatch == Init /\ [][NextBatch]_vars

(***************************************************************************)
(* SpecLinks: one caller on an initialized store writes messages whose     *)
(* text yields three entities, hence three relation pairs; every entity    *)
(* write and every relation write may fail.                                *)
(***************************************************************************)
NextLinks ==
    \/ InitializeDone
    \/ /\ Ready(Caller)
       /\ \E id \in {"m1", "m2"} :
            CreateMessageCall(Caller, id, "t1", 0, "I'm Dawn. Why python?")
    \/ CreateMessageMerge(Caller, {FALSE})
    \/ CreateMessageCreate(Caller, {FALSE})
    \/ CreateEntityNode(Caller, BOOLEAN)
    \/ CreateEntityNodeCreate(Caller)
    \/ CreateEntityRelationships(Caller, BOOLEAN)
    \/ CreateMessageClose(Caller)

SpecLinks == Init /\ [][NextLinks]_vars

(***************************************************************************)
(* SpecMessage: one caller on an initialized store writes messages into    *)
(* two threads; every statement of createMessage may fail, and every state *)
(* in the middle of a call is one a crash can leave behind.                *)
(***************************************************************************)
Contents == {"I use neo4j", "I'm Dawn. I like python"}

NextMessage ==
    \/ InitializeDone
    \/ /\ Ready(Caller)
       /\ \E id \in {"m1", "m2"}, threadId \in {"t1", "t2"}, content \in Contents :
            CreateMessageCall(Caller, id, threadId, 0, content)
    \/ CreateMessageMerge(Caller, BOOLEAN)
    \/ CreateMessageCreate(Caller, BOOLEAN)
    \/ CreateEntityNode(Caller, BOOLEAN)
    \/ CreateEntityNodeCreate(Caller)
    \/ CreateEntityRelationships(Caller, BOOLEAN)
    \/ CreateMessageClose(Caller)

SpecMessage == Init /\ [][NextMessage]_vars

(***************************************************************************)
(* SpecRelations: one caller on an initialized store writes messages whose *)
(* texts yield one, two and three entities; no statement fails.            *)
(***************************************************************************)
RelationContents ==
    {"I use neo4j", "Why python?", "python, Python", "I'm Dawn. I like python"}

NextRelations ==
    \/ InitializeDone
    \/ /\ Ready(Caller)
       /\ \E id \in {"m1", "m2"}, content \in RelationContents :
            CreateMessageCall(Caller, id, "t1", 0, content)
    \/ CreateMessageMerge(Caller, {FALSE})
    \/ CreateMessageCreate(Caller, {FALSE})
    \/ CreateEntityNode(Caller, {FALSE})
    \/ CreateEntityNodeCreate(Caller)
    \/ CreateEntityRelationships(Caller, {FALSE})
    \/ CreateMessageClose(Caller)

SpecRelations == Init /\ [][NextRelations]_vars

(***************************************************************************)
(* SpecUpdate: one caller on an initialized store creates messages in a    *)
(* thread, updates messages field by field, the threadId among the fields, *)
(* updates the thread, and deletes messages and the thread.                *)
(***************************************************************************)
NextUpdate ==
    \/ InitializeDone
    \/ /\ Ready(Caller)
       /\ \E id \in {"m1", "m2"} : CreateMessageCall(Caller, id, "t1", 0, "ok")
    \/ CreateMessageMerge(Caller, {FALSE})
    \/ CreateMessageCreate(Caller, {FALSE})
    \/ CreateMessageClose(Caller)
    \/ /\ Ready(Caller)
       /\ \E id \in {"m1", "m2"}, content \in {Absent, "I use neo4j"},
             threadId \in {Absent, "t1", "t2"} :
            UpdateMessageCall(Caller, id, content, threadId)
    \/ UpdateMessageRun(Caller, BOOLEAN)
    \/ UpdateMessageClose(Caller)
    \/ Ready(Caller) /\ \E t \in ThreadIds : UpdateThreadCall(Caller, t, "Renamed", 0)
    \/ UpdateThreadRun(Caller, {FALSE})
    \/ UpdateThreadClose(Caller)
    \/ Ready(Caller) /\ \E id \in {"m1", "m2"} : DeleteMessagesCall(Caller, {id})
    \/ DeleteMessagesRun(Caller, {FALSE})
    \/ DeleteMessagesClose(Caller)
    \/ Ready(Caller) /\ DeleteThreadCall(Caller, "t1")
    \/ DeleteThreadRun(Caller, {FALSE})
    \/ DeleteThreadClose(Caller)

SpecUpdate == Init /\ [][NextUpdate]_vars

(***************************************************************************)
(* SpecRevive: one caller on an initialized store writes messages into a   *)
(* thread, deletes the thread, creates it again by createThread or by a    *)
(* further createMessage, and lists the thread's messages.                 *)
(***************************************************************************)
NextRevive ==
    \/ InitializeDone
    \/ /\ Ready(Caller)
       /\ \E id \in MsgIds : CreateMessageCall(Caller, id, "t1", 0, "ok")
    \/ CreateMessageMerge(Caller, {FALSE})
    \/ CreateMessageCreate(Caller, {FALSE})
    \/ CreateMessageClose(Caller)
    \/ Ready(Caller) /\ CreateThreadCall(Caller, "t1", 0, 0)
    \/ CreateThreadRun(Caller, {FALSE})
    \/ CreateThreadClose(Caller)
    \/ Ready(Caller) /\ DeleteThreadCall(Caller, "t1")
    \/ DeleteThreadRun(Caller, BOOLEAN)
    \/ DeleteThreadClose(Caller)
    \/ Ready(Caller) /\ GetMessagesByThreadIdCall(Caller, "t1", 0, 0)
    \/ GetMessagesByThreadIdRun(Caller, {FALSE})
    \/ GetMessagesByThreadIdClose(Caller)
    \/ Ready(Caller) /\ GetMessagesPaginatedCall(Caller, "t1", 0, 0)
    \/ GetMessagesPaginatedCount(Caller, {FALSE})
    \/ GetMessagesPaginatedList(Caller, {FALSE})
    \/ GetMessagesPaginatedCloseList(Caller)
    \/ GetMessagesPaginatedClose(Caller)

SpecRevive == Init /\ [][NextRevive]_vars


---------------------------------------------------------------------------
(* Properties of Spec *)

\* the containment edges that end at the Message node n
InEdges(edges, n) == {e \in edges : e[2] = n}

Contained(m) == InEdges(contains, m.nid) # {}

\* caller p is at the DETACH DELETE of deleteThreadById and the statement succeeds
DeleteThreadStep(p) == pc[p] = "dt_run" /\ pc'[p] = "dt_close" /\ ~call'[p].err

\* C5: deleteThread on a thread that owns messages removes the Thread node and its
\* containment edges only: every Message node it owned and every mention edge of
\* those messages is still there, and getMessagesById still returns each message.
DeleteThreadKeepsMessages ==
    [][\A p \in Procs : DeleteThreadStep(p) =>
          LET id == call[p].threadId
              nids == {t.nid : t \in ThreadsById(id)}
              owned == {m \in messages : \E n \in nids : <<n, m.nid>> \in contains}
          IN /\ threads' = threads \ ThreadsById(id)
             /\ contains' = {e \in contains : e[1] \notin nids}
             /\ messages' = messages
             /\ mentions' = mentions
             /\ entities' = entities /\ relations' = relations
             /\ \A m \in owned : \A rows \in ByIdRows(messages', {m.id}) :
                    mapNeo4jNodeToMessage(m) \in Range(rows)]_vars

\* C5 witness: deleteThread has returned, and a message it owned, with a mention
\* edge, has been read back by getMessagesById
DeleteThreadKeepsMessagesWitness ==
    \E p \in Procs, m \in messages :
        /\ threads = {}
        /\ ~Contained(m)
        /\ \E e \in mentions : e.msg = m.nid
        /\ ret[p].op = "getMessagesById" /\ ret[p].status = "ok"
        /\ mapNeo4jNodeToMessage(m) \in Range(ret[p].msgs)

\* C6 as stated: every Message node has exactly one incoming containment edge.
ExactlyOneContainer ==
    \A m \in messages : Cardinality(InEdges(contains, m.nid)) = 1

\* C6 amended: a Message node never has more than one incoming containment edge, and
\* every such edge starts at a Thread node; a node has exactly one when it is created,
\* and the only step that takes it away while the node stays is the DETACH DELETE of
\* deleteThread.
ContainerUntilThreadDeleted ==
    [][/\ \A e \in contains' : e[1] \in {t.nid : t \in threads'}
       /\ \A n \in {m.nid : m \in messages'} :
            /\ Cardinality(InEdges(contains', n)) <= 1
            /\ n \notin {m.nid : m \in messages} => Cardinality(InEdges(contains', n)) = 1
            /\ n \in {m.nid : m \in messages} =>
                  \/ InEdges(contains', n) = InEdges(contains, n)
                  \/ /\ InEdges(contains', n) = {}
                     /\ \E p \in Procs : DeleteThreadStep(p)]_vars

\* C6 witness: after createThread, createMessage, updateMessage and deleteThread one
\* message is left without a container; a message created since has its one edge
ContainerUntilThreadDeletedWitness ==
    \E a, b \in messages :
        /\ a.content = "ok" /\ InEdges(contains, a.nid) = {}
        /\ Cardinality(InEdges(contains, b.nid)) = 1

\* C8: once the thread merge and the message creation of createMessage have
\* succeeded, the Message node and its containment edge are in the store and stay,
\* and createMessage returns the message, whichever entity and relation writes fail.
MessageSurvivesLinkFailures ==
    [][\A p \in Procs :
          /\ (call'[p].op = "createMessage" /\ call'[p].node) =>
                /\ ~call'[p].err
                /\ \E m \in messages' :
                      m.id = call'[p].id /\ InEdges(contains', m.nid) # {}
          /\ (pc[p] = "cm_close" /\ call[p].node /\ pc'[p] = "idle") =>
                /\ ret'[p].status = "ok"
                /\ ret'[p].msgs = <<mapNeo4jNodeToMessage(call[p])>>
                /\ \E m \in messages' :
                      m.id = call[p].id /\ InEdges(contains', m.nid) # {}]_vars

\* C8 witness: createMessage has returned its message although none of its entities
\* was written
MessageSurvivesLinkFailuresWitness ==
    \E p \in Procs, m \in messages :
        /\ ret[p].op = "createMessage" /\ ret[p].status = "ok"
        /\ ret[p].msgs = <<mapNeo4jNodeToMessage(m)>>
        /\ Length(m.content) >= 3 /\ Len(extractEntities(m.content)) >= 2
        /\ Contained(m)
        /\ ~\E e \in mentions : e.msg = m.nid
        /\ relations = {}

\* C17: deleteMessage and deleteMessages remove the Message nodes whose ids are
\* named, with the containment and mention edges at them, and nothing else: every
\* other Message, every Thread, Entity and relation edge is as before.
DeleteMessagesRemovesOnlyNamed ==
    [][\A p \in Procs : (pc[p] = "dm_run" /\ pc'[p] = "dm_close" /\ ~call'[p].err) =>
          LET ids == call[p].ids
              gone == {m.nid : m \in {x \in messages : x.id \in ids}}
          IN /\ messages' = {m \in messages : m.id \notin ids}
             /\ contains' = {e \in contains : e[2] \notin gone}
             /\ mentions' = {e \in mentions : e.msg \notin gone}
             /\ threads' = threads
             /\ entities' = entities
             /\ relations' = relations
             /\ resources' = resources]_vars

\* C17 witness: deleteMessages has removed m1 and its edges; m2, its thread, its
\* mention edges, the entities and their relation are in the store
DeleteMessagesRemovesOnlyNamedWitness ==
    \E p \in Procs, m \in messages :
        /\ ret[p].op = "deleteMessages" /\ ret[p].status = "ok" /\ ret[p].ids = {"m1"}
        /\ MessagesById("m1") = {}
        /\ m.id = "m2" /\ Contained(m)
        /\ Cardinality(entities) = 2 /\ relations # {}
        /\ \A e \in entities : Cardinality({x \in mentions : x.ent = e.nid}) = 1
        /\ \A x \in mentions : x.msg = m.nid

---------------------------------------------------------------------------
\* C24: over any sequence of createThread, createMessage, updateMessage,
\* deleteMessages, deleteThread and getMessagesById calls, failed ones included, an
\* Entity node or relation edge that exists in one state exists in the next, and
\* no Entity has a lower confidence in the next.
EntitiesAccumulate ==
    [][/\ \A e \in entities :
             \E e2 \in entities' : e2.nid = e.nid /\ e2.confidence >= e.confidence
       /\ \A r \in relations :
             \E r2 \in relations' : r2.src = r.src /\ r2.dst = r.dst /\ r2.label = r.label]_vars

\* C24 witness: the thread and every message have been deleted, and the entities
\* and the relation that the messages brought are still in the store
EntitiesAccumulateWitness ==
    /\ Idle(Caller)
    /\ ret[Caller].op \in {"deleteMessages", "deleteThread"}
    /\ threads = {} /\ messages = {} /\ mentions = {}
    /\ Cardinality(entities) = 2 /\ relations # {}

(* Properties of SpecInit *)

\* caller p starts a method in this step or returns from one at once
Calls(p) == Idle(p) /\ (pc'[p] # pc[p] \/ ret'[p] # ret[p])

\* C9: a failing schema statement ends initialize, which throws to its caller and
\* leaves the initialized flag (and the flag of ensureStorageInitialized) as it was;
\* while the flag is false a call to initialize starts again at the first statement;
\* the flag turns true only in the step in which a call's fifth statement succeeds.
InitializeFailurePropagates ==
    [][/\ \A p \in Procs :
            /\ (pc[p] = "init_run" /\ call'[p].err) =>
                  /\ pc'[p] = "init_close" /\ schema' = schema
                  /\ hasInitialized' = hasInitialized
                  /\ storageInitialized' = storageInitialized
            /\ (pc[p] = "init_close" /\ call[p].err /\ Idle(p)') =>
                  /\ ret'[p].status = "throw"
                  /\ hasInitialized' = hasInitialized
                  /\ storageInitialized' = storageInitialized
            /\ (Calls(p) /\ ~hasInitialized) =>
                  /\ pc'[p] = "init_run" /\ call'[p].k = 1 /\ ~call'[p].err
       /\ (hasInitialized' /\ ~hasInitialized) =>
            /\ schema' = AllSchema
            /\ \E p \in Procs : /\ pc[p] = "init_run" /\ call[p].k = Len(SchemaStmts)
                                /\ ~call'[p].err
       /\ storageInitialized' => hasInitialized'
       /\ hasInitialized => hasInitialized']_vars

\* C9 witness: ensureStorageInitialized has thrown after the fifth statement
\* failed, both flags are false, and the caller's next call is at its first statement
InitializeFailurePropagatesWitness ==
    \E p, q \in Procs :
        /\ ret[p].op = "ensure" /\ ret[p].status = "throw"
        /\ Cardinality(schema) = Len(SchemaStmts) - 1
        /\ ~hasInitialized /\ ~storageInitialized
        /\ ret[q].status = "throw" /\ p # q

\* C10: once initialize has succeeded, a call to initialize (or to init, which only
\* awaits it) returns without opening a session or running a statement, does not
\* throw, and leaves the declared constraints and indexes, all five, as they were.
InitializeIdempotent ==
    [][/\ \A p \in Procs : (Calls(p) /\ hasInitialized) =>
            /\ pc'[p] = "idle"
            /\ ret'[p].status = "ok" /\ ret'[p].noop
            /\ sess' = sess
            /\ schema' = schema
            /\ hasInitialized'
       /\ hasInitialized' => schema' = AllSchema]_vars

\* C10 witness: a call to initialize has returned as a no-op after the successful one
InitializeIdempotentWitness ==
    \E p \in Procs :
        /\ hasInitialized /\ schema = AllSchema
        /\ ret[p].op = "initialize" /\ ret[p].status = "ok" /\ ret[p].noop
        /\ sess[p] = 0

\* C26: however two first-time initialize calls on one instance interleave, both
\* may run schema statements, the declared set never leaves that of a single call
\* and equals it once a call has completed successfully, the flag is true from
\* then on, and a later failure of the other call does not turn it back to false.
ConcurrentInitializeConverges ==
    [][/\ schema' \subseteq AllSchema
       /\ \A p \in Procs :
             (ret'[p].op \in {"initialize", "ensure"} /\ ret'[p].status = "ok") =>
                 hasInitialized' /\ schema' = AllSchema
       /\ \A p \in Procs :
             (hasInitialized /\ (call'[p].err \/ ret'[p].status = "throw")) => hasInitialized'
       /\ hasInitialized => hasInitialized']_vars

\* C26 witness: one call has completed successfully and set the flag while the
\* other, started before, is in the middle of the schema statements it re-runs
ConcurrentInitializeConvergesWitness ==
    \E p, q \in Procs :
        /\ p # q
        /\ ret[p].op = "initialize" /\ ret[p].status = "ok" /\ ~ret[p].noop
        /\ hasInitialized /\ schema = AllSchema
        /\ pc[q] = "init_run" /\ call[q].k >= 2

---------------------------------------------------------------------------
(* Properties of SpecConc *)

\* both callers have made their createMessage call, for different messages of
\* thread "t1", and both calls have ended
BothCreated ==
    /\ \A p \in Procs : ret[p].op = "createMessage" /\ ret[p].threadId = "t1"
    /\ ret["p1"].ids # ret["p2"].ids

\* the message that p's call named has one node, contained in a Thread "t1"
CreatedIn(p) ==
    /\ Cardinality({m \in messages : m.id \in ret[p].ids}) = 1
    /\ \A m \in messages : m.id \in ret[p].ids =>
          \E t \in ThreadsById("t1") : InEdges(contains, m.nid) = {<<t.nid, m.nid>>}

\* C2 as stated: however two createMessage calls for the same unknown threadId
\* interleave, the store ends with exactly one Thread node of that id and both
\* messages are contained in it.
OneThreadForAnyInterleaving ==
    (BothCreated /\ \A p \in Procs : ret[p].status = "ok") =>
        /\ Cardinality(ThreadsById("t1")) = 1
        /\ \A p \in Procs : CreatedIn(p)

\* C2 amended: on a store on which initialize has declared the uniqueness
\* constraints, two createMessage calls for different messages that name the same
\* unknown threadId both return, however they interleave, the store ends with
\* exactly one Thread node of that id, and both messages are contained in it.
OneThreadOnceInitialized ==
    (BothCreated /\ hasInitialized) =>
        /\ \A p \in Procs : ret[p].status = "ok"
        /\ Cardinality(ThreadsById("t1")) = 1
        /\ \A p \in Procs : CreatedIn(p)

\* C2 witness: the two calls have returned on an initialized store, with one Thread
\* node, two contained messages and the entity of one of them mentioned
OneThreadOnceInitializedWitness ==
    /\ BothCreated /\ hasInitialized
    /\ Cardinality(ThreadsById("t1")) = 1
    /\ Cardinality(messages) = 2 /\ Cardinality(contains) = 2
    /\ mentions # {}

\* C19: however two createMessage calls whose contents yield the same (type,
\* value) entity interleave, the store ends with exactly one Entity node for the
\* pair, holding the greater confidence, with one mention edge from each message.
EntitiesConverge ==
    (/\ BothCreated /\ hasInitialized
     /\ \A p \in Procs : ret[p].status = "ok"
     /\ \A m \in messages : m.content = "I use neo4j")
    => /\ Cardinality(EntitiesBy("Technology", "neo4j")) = 1
       /\ \A e \in EntitiesBy("Technology", "neo4j") :
             /\ e.confidence = 9
             /\ \A m \in messages :
                   Cardinality({x \in mentions : x.msg = m.nid /\ x.ent = e.nid}) = 1

---------------------------------------------------------------------------
(* Properties of SpecLinks *)
\* the pair (i, j) createEntityRelationships is at is not the last of its loops
PairsRemain(p) == call[p].j < Len(call[p].ents) \/ call[p].k + 1 < Len(call[p].ents)

\* C20: within one createMessage a failed relation write is caught for its pair
\* only, so from any pair but the last the call goes on to the next pair; likewise
\* from any entity but the last the call goes on to the next entity.
LinkFailuresArePerItem ==
    [][\A p \in Procs :
          /\ (pc[p] = "cm_rel" /\ PairsRemain(p) /\ call'[p] # call[p])
                => /\ pc'[p] = "cm_rel"
                   /\ <<call'[p].k, call'[p].j>> # <<call[p].k, call[p].j>>
          /\ (/\ pc[p] \in {"cm_entity", "cm_entity_create"}
              /\ call[p].k < Len(call[p].ents) /\ call'[p] # call[p])
                => (pc'[p] = "cm_entity" /\ call'[p].k = call[p].k + 1)]_vars

\* the entity half of C20 alone: a failed entity write goes on to the next entity
EntityFailuresArePerEntity ==
    [][\A p \in Procs :
          (/\ pc[p] \in {"cm_entity", "cm_entity_create"}
           /\ call[p].k < Len(call[p].ents) /\ call'[p] # call[p])
                => (pc'[p] = "cm_entity" /\ call'[p].k = call[p].k + 1)]_vars


(* Properties of SpecMessage *)

\* the Message node m hangs on a Thread node by a containment edge
Linked(m) == \E t \in threads : <<t.nid, m.nid>> \in contains

\* C21: in every state of a createMessage call, a crash at a statement boundary
\* included, each Message node has its containment edge, and a mention or relation
\* write of the call is only attempted, and a mention only exists, for a message
\* that is in the store with its containment edge.
MessageLinkedBeforeEntities ==
    /\ \A m \in messages : Linked(m)
    /\ \A p \in Procs :
          pc[p] \in {"cm_entity", "cm_entity_create", "cm_rel"} =>
              \E m \in MessagesById(call[p].id) :
                  \E t \in ThreadsById(call[p].threadId) : <<t.nid, m.nid>> \in contains
    /\ \A x \in mentions : \E m \in messages : m.nid = x.msg /\ Linked(m)

\* C21 witness: a call stands between two entity writes, its message linked to the
\* thread and mentioned once so far: a crash here leaves partial mentions
MessageLinkedBeforeEntitiesWitness ==
    /\ pc[Caller] = "cm_entity" /\ call[Caller].k = 2
    /\ \E m \in MessagesById(call[Caller].id) :
          /\ Linked(m)
          /\ Cardinality({x \in mentions : x.msg = m.nid}) = 1

\* C29: createMessage is not atomic across its statements: when the message
\* statement fails after the thread merge has run, as it does for a message id that
\* is already in the store, no Message node or containment edge is added, the
\* Thread the merge left for the threadId stays, and the call throws.
CreateMessageNotAtomic ==
    [][\A p \in Procs :
          /\ (pc[p] = "cm_create" /\ pc'[p] # pc[p] /\ MessagesById(call[p].id) # {})
                => call'[p].err
          /\ (pc[p] = "cm_create" /\ call'[p].err) =>
                /\ pc'[p] = "cm_close"
                /\ messages' = messages /\ contains' = contains
                /\ threads' = threads /\ ThreadsById(call[p].threadId) # {}
          /\ (pc[p] = "cm_close" /\ call[p].err /\ Idle(p)') =>
                /\ ret'[p].status = "throw"
                /\ messages' = messages /\ contains' = contains /\ threads' = threads]_vars

\* C29 witness: a call for a message id that was already in thread "t1" has thrown,
\* and the Thread "t2" that its merge created is in the store, with no message
CreateMessageNotAtomicWitness ==
    /\ ret[Caller].op = "createMessage" /\ ret[Caller].status = "throw"
    /\ ret[Caller].threadId = "t2"
    /\ ThreadsById("t2") # {} /\ ContainedIn("t2") = {}
    /\ \A m \in messages : m.threadId = "t1"
    /\ \E m \in messages : m.id \in ret[Caller].ids

(* Properties of SpecRelations *)

EntityTypes == {"Person", "Topic", "Technology", "Question"}

\* the labels by ordered pair of types: three listed orderings, RELATED_TO otherwise
RuleTable(t1, t2) ==
    CASE t1 = "Person" /\ t2 = "Topic" -> "INTERESTED_IN"
      [] t1 = "Person" /\ t2 = "Technology" -> "USES"
      [] t1 = "Topic" /\ t2 = "Technology" -> "IMPLEMENTS"
      [] OTHER -> "RELATED_TO"

\* the entity list e[0..n-1] of a stored message
Extracted(m) == IF Length(m.content) < 3 THEN <<>> ELSE extractEntities(m.content)

\* the relation edges with the given label from a node of entity a to a node of b
PairRelations(a, b, label) ==
    {r \in relations : /\ r.src \in {e.nid : e \in EntitiesBy(a.type, a.value)}
                       /\ r.dst \in {e.nid : e \in EntitiesBy(b.type, b.value)}
                       /\ r.label = label}

\* no createMessage call for the message is under way
Settled(m) == \A p \in Procs : Idle(p) \/ call[p].id # m.id

\* C22: for the entity list e of a message, each index pair i < j has exactly one
\* relation edge from e[i] to e[j], labelled INTERESTED_IN for (Person, Topic), USES
\* for (Person, Technology), IMPLEMENTS for (Topic, Technology) and RELATED_TO for
\* every other ordered pair of types, the swapped ones included; no relation exists
\* that is not the edge of such a pair, so a list of fewer than two writes none.
RelationPerPair ==
    /\ \A t1, t2 \in EntityTypes :
          RelationshipType([type |-> t1], [type |-> t2]) = RuleTable(t1, t2)
    /\ \A m \in messages :
          Settled(m) =>
              \A i, j \in 1..Len(Extracted(m)) :
                  i < j => LET a == Extracted(m)[i]
                               b == Extracted(m)[j]
                           IN Cardinality(PairRelations(a, b, RuleTable(a.type, b.type))) = 1
    /\ \A r \in relations :
          \E m \in messages : \E i, j \in 1..Len(Extracted(m)) :
              /\ i < j
              /\ r \in PairRelations(Extracted(m)[i], Extracted(m)[j],
                                     RuleTable(Extracted(m)[i].type, Extracted(m)[j].type))

\* C22 witness: both calls have returned, one for a message of three entities
\* whose pairs carry the three specific labels, one for a message of one entity
RelationPerPairWitness ==
    /\ Idle(Caller)
    /\ {r.label : r \in relations} = {"INTERESTED_IN", "USES", "IMPLEMENTS"}
    /\ Cardinality(relations) = 3
    /\ \E m \in messages : Len(Extracted(m)) = 1

\* C23: a relation edge is unique per (source entity, target entity, label); its
\* confidence is the lesser of the extraction confidences of the two entities of
\* a pair that wrote it, and no step of a createMessage call removes the edge or
\* lowers its confidence.
RelationConfidenceMonotone ==
    [][/\ \A r1, r2 \in relations' :
             (r1.src = r2.src /\ r1.dst = r2.dst /\ r1.label = r2.label) => r1 = r2
       /\ \A r \in relations' :
             \E m \in messages' : \E i, j \in 1..Len(Extracted(m)) :
                 /\ i < j
                 /\ r.src[1] = Extracted(m)[i].type /\ r.src[2] = Extracted(m)[i].value
                 /\ r.dst[1] = Extracted(m)[j].type /\ r.dst[2] = Extracted(m)[j].value
                 /\ r.confidence = IF Extracted(m)[i].confidence < Extracted(m)[j].confidence
                                   THEN Extracted(m)[i].confidence
                                   ELSE Extracted(m)[j].confidence
       /\ \A r \in relations :
             \E r2 \in relations' :
                 /\ r2.src = r.src /\ r2.dst = r.dst /\ r2.label = r.label
                 /\ r2.confidence >= r.confidence]_vars

\* C23 witness: two messages of the same text have been written, so each of the
\* three pairs was merged twice, and there are three relation edges
RelationConfidenceMonotoneWitness ==
    /\ Idle(Caller)
    /\ Cardinality(messages) = 2
    /\ \A m \in messages : m.content = "I'm Dawn. I like python"
    /\ Cardinality(relations) = 3
    /\ \E r \in relations : r.label = "INTERESTED_IN" /\ r.confidence = 8

\* the mention edges from message m to the nodes of entity a
MentionEdges(m, a) ==
    {x \in mentions : x.msg = m.nid /\ \E e \in EntitiesBy(a.type, a.value) : x.ent = e.nid}

\* how often (type, value) of a stands in the entity list
Occurrences(ents, a) ==
    Cardinality({i \in 1..Len(ents) : ents[i].type = a.type /\ ents[i].value = a.value})

\* C25 as stated: after a createMessage call without write failures there is
\* exactly one mention edge for each (message, entity) pair of the message's entity
\* list, also when the same (type, value) stands in the list more than once.
OneMentionPerPair ==
    \A m \in messages :
        Settled(m) =>
            \A i \in 1..Len(Extracted(m)) :
                Cardinality(MentionEdges(m, Extracted(m)[i])) = 1

\* C25 amended: after a createMessage call without write failures there is one
\* mention edge per entry of the message's entity list: one for a (message,
\* entity) pair whose (type, value) was extracted once, k parallel ones when it was
\* extracted k times.
OneMentionPerEntry ==
    \A m \in messages :
        Settled(m) =>
            \A i \in 1..Len(Extracted(m)) :
                Cardinality(MentionEdges(m, Extracted(m)[i]))
                    = Occurrences(Extracted(m), Extracted(m)[i])

\* C25 witness: the call for a message whose text names one technology twice has
\* returned, and the message has two mention edges to the one Entity node
OneMentionPerEntryWitness ==
    /\ Idle(Caller) /\ ret[Caller].op = "createMessage" /\ ret[Caller].status = "ok"
    /\ \E m \in messages :
          /\ m.content = "python, Python" /\ m.id \in ret[Caller].ids
          /\ Cardinality(EntitiesBy("Technology", "python")) = 1
          /\ Cardinality(MentionEdges(m, Technology("python"))) = 2

(* Properties of SpecUpdate *)

\* C28: in every state reachable by createMessage, updateMessage, updateThread and
\* the delete operations, the threadId property of a Message that has a
\* containment edge is the id of the Thread at the other end of the edge.
ThreadIdMatchesContainer ==
    \A m \in messages : \A t \in threads :
        <<t.nid, m.nid>> \in contains => m.threadId = t.id

(* Properties of SpecRevive *)

\* the Message nodes that hang on a Thread node with the given id
HangingOn(threadId) ==
    {m \in messages : \E t \in threads : t.id = threadId /\ <<t.nid, m.nid>> \in contains}

\* the ids of the messages of a result
IdsOf(msgs) == {msgs[i].id : i \in 1..Len(msgs)}

\* C30: once deleteThread(T) has returned, no message hangs on T; a message that
\* has lost its containment edge never gets one again, also when a Thread with id
\* T is created again by createThread or createMessage; getMessagesByThreadId(T)
\* lists exactly the messages that hang on T and getMessagesPaginated(T) counts
\* them, so the messages from before the deletion are not listed for T again.
DeletedThreadStaysEmpty ==
    [][/\ \A e \in contains' \ contains : e[2] \notin {m.nid : m \in messages}
       /\ \A p \in Procs : \A T \in ThreadIds :
             (ret'[p].threadId = T /\ ret'[p].status = "ok") =>
                 /\ ret'[p].op = "deleteThread" => HangingOn(T)' = {}
                 /\ ret'[p].op = "getMessagesByThreadId" =>
                       /\ IdsOf(ret'[p].msgs) = {m.id : m \in HangingOn(T)'}
                       /\ Len(ret'[p].msgs) = Cardinality(HangingOn(T)')
                 /\ ret'[p].op = "getMessagesPaginated" =>
                       /\ ret'[p].total = Cardinality(HangingOn(T)')
                       /\ IdsOf(ret'[p].msgs) = {m.id : m \in HangingOn(T)'}]_vars

\* C30 witness: a message was written, its thread deleted and created again with
\* a second message; the listing of the thread has returned the second one only
DeletedThreadStaysEmptyWitness ==
    /\ ret[Caller].op = "getMessagesByThreadId" /\ ret[Caller].status = "ok"
    /\ Cardinality(messages) = 2 /\ Cardinality(ThreadsById("t1")) = 1
    /\ \E m \in messages : ~Linked(m) /\ m.threadId = "t1"
    /\ Len(ret[Caller].msgs) = 1
    /\ \A m \in messages : m.id \in IdsOf(ret[Caller].msgs) => Linked(m)

(* Properties of SpecRead *)

\* C1: getMessages called with selectBy.last = false returns an empty list, whatever
\* the thread contains.
LastFalseReturnsNothing ==
    \A p \in Procs :
        (ret[p].op = "getMessages" /\ ret[p].status = "ok" /\ ret[p].last.kind = "false")
            => ret[p].msgs = <<>>

\* C14: getMessages with selectBy.last = n, for any n >= 0, returns min(n, number
\* of messages in the thread) messages.
LastNumberIsLimit ==
    \A p \in Procs :
        (ret[p].op = "getMessages" /\ ret[p].status = "ok" /\ ret[p].last.kind = "number")
            => Len(ret[p].msgs) = Min(ret[p].last.n, Cardinality(ContainedIn(ret[p].threadId)))

\* C15: getMessages with selectBy.last = n on a thread of more than n messages
\* returns the n messages with the greatest createdAt.
LastReturnsNewest ==
    \A p \in Procs :
        LET r == ret[p]
            all == {mapNeo4jNodeToMessage(m) : m \in ContainedIn(r.threadId)}
        IN (/\ r.op = "getMessages" /\ r.status = "ok"
            /\ r.last.kind = "number" /\ r.last.n >= 1
            /\ Cardinality(all) > r.last.n)
           => /\ Len(r.msgs) = r.last.n
              /\ \A m \in Range(r.msgs), x \in all \ Range(r.msgs) : x.createdAt <= m.createdAt

RECURSIVE Returned(_)
\* the messages of the pages read so far, in the order returned
Returned(pages) ==
    IF pages = <<>> THEN <<>> ELSE pages[1].msgs \o Returned(Tail(pages))

CeilDiv(n, d) == (n + d - 1) \div d

\* C4: a caller that has read the pages 0..ceil(N/P)-1 of a thread of N messages,
\* with no write in between, has received N messages, none of them twice, and
\* hasMore was true on every page but the last.
PagesCoverThread ==
    \A p \in Procs :
        LET r == ret[p]
            N == Cardinality(ContainedIn(r.threadId))
            all == Returned(r.pages)
        IN (/\ r.op = "getMessagesPaginated" /\ r.status = "ok"
            /\ N > 0 /\ Len(r.pages) = CeilDiv(N, r.perPage))
           => /\ Len(all) = N
              /\ \A i, j \in 1..Len(all) : i # j => all[i].id # all[j].id
              /\ \A i \in 1..Len(r.pages) : r.pages[i].hasMore = (i < Len(r.pages))

---------------------------------------------------------------------------
(* Properties of SpecEntity *)

MaxOf(S) == CHOOSE x \in S : \A y \in S : y <= x

\* the mention edges at the Entity node e, one per upsert of its (type, value)
Upserts(e) == {m \in mentions : m.ent = e.nid}

\* C3: after any upserts of a (type, value) pair made one after the other, in any
\* order of their confidences, there is one Entity node for the pair and its
\* confidence is the greatest of the confidences upserted.
EntityConfidenceIsMax ==
    /\ \A e \in entities :
          /\ Cardinality(EntitiesBy(e.type, e.value)) = 1
          /\ Upserts(e) # {}
          /\ e.confidence = MaxOf({m.confidence : m \in Upserts(e)})
    /\ \A m \in mentions : \E e \in entities : e.nid = m.ent

\* C3 witness: one pair was upserted with 8, then 9, then 6, and its one node holds 9
EntityConfidenceIsMaxWitness ==
    \E e \in entities :
        /\ Idle(Caller)
        /\ {<<m.eid, m.confidence>> : m \in Upserts(e)} = {<<0, 8>>, <<1, 9>>, <<2, 6>>}
        /\ e.confidence = 9
        /\ Cardinality(entities) = 1

---------------------------------------------------------------------------
(* Properties of SpecSession *)

\* C7: whenever a caller is not inside a method, every session its methods opened
\* has been closed, whether they returned or threw.
SessionsReleased == \A p \in Procs : Idle(p) => sess[p] = 0

\* caller p is inside healthCheck
InHealthCheck(p) == pc[p] \in {"hc_run", "hc_close", "hc_catch"}

\* C11: healthCheck never throws: it returns true when the query and the close of
\* the session have both succeeded, and false when acquiring the session, the
\* query or the close has raised a fault.
HealthCheckNeverThrows ==
    [][\A p \in Procs :
          /\ (InHealthCheck(p) /\ Idle(p)') =>
                /\ ret'[p].op = "healthCheck" /\ ret'[p].status = "ok"
                /\ ret'[p].healthy = (pc[p] = "hc_close" /\ ~call[p].err)
          /\ (InHealthCheck(p)' /\ call'[p].err) => pc'[p] = "hc_catch"
          /\ (pc[p] = "hc_run" /\ pc'[p] = "hc_close") => ~call'[p].err
          /\ pc[p] = "hc_catch" => call[p].err]_vars

\* C11 witness: on a store that has worked before, healthCheck has met a fault and
\* returned false, leaving no session open
HealthCheckNeverThrowsWitness ==
    \E p \in Procs :
        /\ ret[p].op = "healthCheck" /\ ret[p].status = "ok" /\ ~ret[p].healthy
        /\ Idle(p) /\ sess[p] = 0
        /\ hasInitialized /\ messages # {}

---------------------------------------------------------------------------
(* Properties of SpecThread *)

\* C12: once initialize has completed there is at most one Thread node per id;
\* createThread (saveThread) for an id that a Thread already has, created
\* explicitly or by createMessage, is refused by the store, throws, and leaves the
\* Thread nodes as they were.
OneThreadPerId ==
    [][/\ hasInitialized' =>
            \A id \in ThreadIds : Cardinality({t \in threads' : t.id = id}) <= 1
       /\ \A p \in Procs :
            /\ (/\ pc[p] = "ct_run" /\ pc'[p] # "ct_run"
                /\ hasInitialized /\ ThreadsById(call[p].threadId) # {}) =>
                  /\ call'[p].err
                  /\ threads' = threads
            /\ (pc[p] = "ct_close" /\ call[p].err /\ Idle(p)') =>
                  /\ ret'[p].op = "createThread" /\ ret'[p].status = "throw"]_vars

\* C12 witness: createThread has thrown for the id of the Thread that createMessage
\* auto-created, and that Thread is the only one
OneThreadPerIdWitness ==
    \E p \in Procs :
        /\ ret[p].op = "createThread" /\ ret[p].status = "throw" /\ ret[p].threadId = "t1"
        /\ hasInitialized
        /\ Cardinality(threads) = 1
        /\ \A t \in threads : t.id = "t1" /\ t.title = "Auto-created Thread"

\* C13: every Thread node has createdAt <= updatedAt.
ThreadTimestampsOrdered == \A t \in threads : t.createdAt <= t.updatedAt

---------------------------------------------------------------------------
\* caller p is inside a createMessage call
InCreateMessage(p) ==
    pc[p] \in {"cm_merge", "cm_merge_create", "cm_create", "cm_entity", "cm_entity_create",
               "cm_rel", "cm_close"}

\* C27: a createMessage call against a threadId whose Thread node exists leaves
\* every Thread node as it is (resourceId, title, createdAt, updatedAt, metadata),
\* also when the message carries another resourceId or title; a step of the call
\* adds a Thread only for an unknown threadId, and otherwise only adds Message
\* nodes of the call's id and containment edges to them.
CreateMessageKeepsThread ==
    [][\A p \in Procs :
          InCreateMessage(p) =>
              /\ threads \subseteq threads'
              /\ threads' # threads => ThreadsById(call[p].threadId) = {}
              /\ messages \subseteq messages' /\ contains \subseteq contains'
              /\ \A m \in messages' \ messages : m.id = call[p].id
              /\ \A e \in contains' \ contains :
                    \E m \in messages' \ messages : e[2] = m.nid]_vars

\* C27 witness: a call whose message carries resourceId "r1" and the title "Mine"
\* has written its message into a thread that was renamed before, and the thread
\* still has the resourceId "default" and the title "Renamed"
CreateMessageKeepsThreadWitness ==
    /\ pc[Caller] = "cm_close" /\ call[Caller].node
    /\ call[Caller].resourceId = "r1" /\ call[Caller].title = "Mine"
    /\ \E t \in ThreadsById("t1") :
          /\ t.title = "Renamed" /\ t.resourceId = "default" /\ t.updatedAt > t.createdAt
          /\ \E m \in messages : <<t.nid, m.nid>> \in contains

(* Properties of SpecLookup *)

\* caller p leaves the await point at label in this step
Leaves(p, label) == pc[p] = label /\ pc'[p] # label

\* C16: a lookup for an id that is not in the store succeeds: getThreadById and
\* getResourceById return null, updateThread and updateMessage with a field to set
\* return null and change nothing, and getMessagesById returns the messages that
\* exist, each once, in ascending createdAt, leaving the unknown ids out.
UnknownIdIsNotAnError ==
    [][\A p \in Procs :
          /\ (Leaves(p, "gt_run") /\ ThreadsById(call[p].threadId) = {}) =>
                ~call'[p].err /\ call'[p].rows = <<>>
          /\ (Leaves(p, "gr_run") /\ ResourcesById(call[p].resourceId) = {}) =>
                ~call'[p].err /\ call'[p].rows = <<>>
          /\ (Leaves(p, "ut_run") /\ ThreadsById(call[p].threadId) = {}) =>
                ~call'[p].err /\ call'[p].rows = <<>> /\ store' = store
          /\ (Leaves(p, "um_run") /\ MessagesById(call[p].id) = {}) =>
                ~call'[p].err /\ call'[p].rows = <<>> /\ store' = store
          /\ Leaves(p, "gi_run") =>
                LET rows == call'[p].rows
                    found == {mapNeo4jNodeToMessage(m) : m \in {x \in messages : x.id \in call[p].ids}}
                IN /\ ~call'[p].err
                   /\ Range(rows) = found /\ Len(rows) = Cardinality(found)
                   /\ \A i, j \in 1..Len(rows) : i < j => rows[i].createdAt <= rows[j].createdAt
          /\ (pc[p] \in {"gt_close", "gr_close", "ut_close", "um_close", "gi_close"}
                /\ ~call[p].err /\ Idle(p)') =>
                ret'[p].status = "ok" /\ ret'[p].msgs = call[p].rows]_vars

\* C16 witness: getMessagesById, asked for m1, m2 and the unknown m3, has returned
\* m2 before m1, the order of their createdAt
UnknownIdIsNotAnErrorWitness ==
    \E p \in Procs :
        /\ ret[p].op = "getMessagesById" /\ ret[p].status = "ok"
        /\ ret[p].ids = {"m1", "m2", "m3"} /\ MessagesById("m3") = {}
        /\ Len(ret[p].msgs) = 2
        /\ ret[p].msgs[1].id = "m2" /\ ret[p].msgs[2].id = "m1"
        /\ ret[p].msgs[1].createdAt < ret[p].msgs[2].createdAt

---------------------------------------------------------------------------
(* Properties of SpecBatch *)

\* the effect of statement op is in the store
Applied(op) ==
    IF op.kind = "create_thread" THEN ThreadsById(op.id) # {} ELSE ResourcesById(op.id) # {}

\* C18: batch runs its statements one after another in list order and rolls nothing
\* back: when statement k fails, the effects of statements 1..k-1 stay in the
\* store, no statement after k is run, and batch throws.
BatchStopsAtFirstFailure ==
    [][\A p \in Procs :
          LET c == call[p]
          IN /\ (pc[p] = "b_run" /\ pc'[p] # "idle" /\ call'[p] # c) =>
                   \/ /\ ~call'[p].err /\ call'[p].k = c.k + 1
                      /\ threads' = StatementEffect(c.ops[c.k]).threads
                      /\ resources' = StatementEffect(c.ops[c.k]).resources
                      /\ pc'[p] = IF c.k = Len(c.ops) THEN "b_close" ELSE "b_run"
                   \/ /\ call'[p].err /\ call'[p].k = c.k
                      /\ pc'[p] = "b_close"
                      /\ store' = store /\ resources' = resources
             /\ (pc[p] = "b_close" /\ pc'[p] # "b_close") =>
                   /\ Idle(p)' /\ store' = store /\ resources' = resources
                   /\ ret'[p].op = "batch"
                   /\ ret'[p].status = IF c.err THEN "throw" ELSE "ok"
                   /\ ret'[p].total = c.k - 1
                   /\ \A i \in 1..(c.k - 1) : Applied(c.ops[i])
                   /\ ~c.err => c.k = Len(c.ops) + 1]_vars

\* C18 witness: a batch of two statements has thrown at its second; the Resource
\* node of its first statement is in the store, the Thread of the second is not
BatchStopsAtFirstFailureWitness ==
    \E p \in Procs :
        /\ ret[p].op = "batch" /\ ret[p].status = "throw" /\ ret[p].total = 1
        /\ ResourcesById("r1") # {}
        /\ threads = {}

====
